---- MODULE Spec2Model ----
\* Exchequer backend (the Express server, src/unnamed/part_001): the Stripe
\* webhook endpoint POST /api/webhooks/stripe and the three reconciliation
\* handlers handlePaymentSuccess / handlePaymentFailure / handleRefund, with the
\* Firestore collections dues and donations they write.
\*
\* Two specifications.  Spec is the endpoint as requests reach it, through the
\* body parsers and constructEvent.  SpecVerified is the route from line 197 on,
\* for events constructEvent has returned; the handlers are settled there.
EXTENDS Integers, Sequences, FiniteSets, TLC

VARIABLES
    db,          \* TRUE iff Firebase Admin was initialised (line 36: db is null otherwise)
    dues,        \* artifacts/{org}/users/{member}/dues/{member}: one document per member
    donations,   \* artifacts/{org}/users/{member}/donations: documents in creation order
    clock,       \* the day new Date().toISOString().split('T')[0] yields
    delivered,   \* number of webhook requests handled so far
    last,        \* the request handled last and what the endpoint did with it
    stripeKey,   \* TRUE iff STRIPE_SECRET_KEY is set and is not the placeholder (line 366)
    customers,   \* the provider's customers, oldest first
    intents,     \* the payment intents the provider created for this backend, oldest first
    transfers,   \* the transfers the provider created, oldest first
    piRecords,   \* artifacts/{org}/users/{member}/payment_intents, in creation order
    expenses,    \* artifacts/{org}/users/{member}/expenses, in creation order
    served,      \* number of API requests handled so far
    api,         \* the API request handled last and what the server did with it
    flight,      \* the create-payment-intent requests in flight: where each one waits
    page         \* the browser page of frontend-integration.js: its objects and globals

\* The state of the issuance endpoints; the webhook route leaves it alone.
ivars == <<stripeKey, customers, intents, transfers, piRecords, expenses, served, api,
           flight, page>>

vars == <<db, dues, donations, clock, delivered, last, ivars>>

-----------------------------------------------------------------------------
\* Bounds of the model.

MaxDay == 2          \* days the clock runs through
MaxDeliveries == 2   \* webhook requests handled in one behaviour
MaxCalls == 2        \* API requests (and events about issued intents) in one behaviour

-----------------------------------------------------------------------------
\* Values.  A JavaScript value that may be undefined is a sequence: <<v>> when
\* present, <<>> when undefined / absent.

Some(v) == <<v>>
None == <<>>

Orgs == {"o1", "o2"}
MemberIds == {"m1", "m2"}
MemberKeys == Orgs \X MemberIds

\* paymentIntent.amount / 100 (lines 231, 246, 270) and charge.amount_refunded / 100
\* (line 297): minor units to major units, kept exact as <<units, hundredths>>.
Div100(a) == <<a \div 100, a % 100>>

\* The payment intents the provider holds.  pi_1 and pi_3 are the kind
\* create-payment-intent issues (lines 139-153, paymentType 'dues'), pi_2 is a
\* donation intent of the member of pi_1, pi_4 is an intent that was created
\* elsewhere in the same provider account with no metadata, pi_5 one whose
\* metadata names the member but carries no memberName.
IntentIds == {"pi_1", "pi_2", "pi_3", "pi_4", "pi_5"}

Meta(o, m, t, n) ==
    [organizationId |-> o, memberId |-> m, paymentType |-> t, memberName |-> n]

ProviderIntent(id) ==
    CASE id = "pi_1" -> [id |-> id, amount |-> 15000, latest_charge |-> "ch_1",
                         description |-> "Spring dues",
                         metadata |-> Meta(Some("o1"), Some("m1"), Some("dues"), Some("Test"))]
      [] id = "pi_2" -> [id |-> id, amount |-> 2550, latest_charge |-> "ch_2",
                         description |-> "Bake sale",
                         metadata |-> Meta(Some("o1"), Some("m1"), Some("donation"), Some("Test"))]
      [] id = "pi_3" -> [id |-> id, amount |-> 5000, latest_charge |-> "ch_3",
                         description |-> "Spring dues",
                         metadata |-> Meta(Some("o2"), Some("m2"), Some("dues"), Some("Bob"))]
      [] id = "pi_4" -> [id |-> id, amount |-> 999, latest_charge |-> "ch_4",
                         description |-> "Other product",
                         metadata |-> Meta(None, None, None, None)]
      [] OTHER       -> [id |-> id, amount |-> 7500, latest_charge |-> "ch_5",
                         description |-> "Fall dues",
                         metadata |-> Meta(Some("o2"), Some("m2"), Some("dues"), None)]

\* The intent a charge belongs to (charge.payment_intent, line 287).
ChargeIntent(ch) ==
    CHOOSE id \in IntentIds : ProviderIntent(id).latest_charge = ch

ChargeIds == {ProviderIntent(id).latest_charge : id \in IntentIds}

\* paymentIntent.last_payment_error of a failed intent: absent, present without
\* a message, present with a message.
PaymentErrors ==
    {None, Some([message |-> None]), Some([message |-> Some("Your card was declined.")])}

\* What a refunded charge of the given amount reports: amount_refunded and
\* charge.refunds.data (the ids of the refund entries, newest first).  A second
\* partial refund, a full refund, and a charge object without refund entries.
Refunds(amount) ==
    {<<1000, <<"re_2", "re_1">>>>, <<amount, <<"re_1">>>>, <<amount, <<>>>>}

HandledTypes ==
    {"payment_intent.succeeded", "payment_intent.payment_failed", "charge.refunded"}

\* A webhook event: its type and the fields of event.data.object the handlers read.
\* object is a payment intent id for the payment_intent.* events and a charge id
\* for charge.refunded.
Event(t, obj, err, refunded, refunds) ==
    [type |-> t, object |-> obj, last_payment_error |-> err,
     amount_refunded |-> refunded, refunds |-> refunds]

Events ==
    {Event("payment_intent.succeeded", id, None, 0, <<>>) : id \in IntentIds}
    \cup {Event("payment_intent.payment_failed", id, e, 0, <<>>) :
            id \in IntentIds, e \in PaymentErrors}
    \cup UNION {{Event("charge.refunded", ch, None, r[1], r[2]) :
                    r \in Refunds(ProviderIntent(ChargeIntent(ch)).amount)} :
                 ch \in ChargeIds}
    \cup {Event("payment_intent.created", id, None, 0, <<>>) : id \in IntentIds}

-----------------------------------------------------------------------------
\* The Record Store.  A dues document is the record of its fields; set(...,
\* {merge: true}) on a missing document creates it with the fields given.

DuesFields ==
    {"memberName", "amount", "status", "dueDate", "paidDate", "paymentIntentId",
     "stripeChargeId", "failureReason", "refundDate", "refundId"}

NoDoc == [f \in DuesFields |-> None]

\* A merge that adds the amount written to the amount stored (an increment
\* in place of an assignment).
SetMergeIncrement(doc, data) ==
    [f \in DuesFields |->
        IF f \notin DOMAIN data THEN doc[f]
        ELSE IF f = "amount" /\ doc[f] # None
        THEN Some(Div100(100 * doc[f][1][1] + doc[f][1][2]
                         + 100 * data[f][1][1] + data[f][1][2]))
        ELSE data[f]]

\* DocumentReference.set(data, {merge: true}): the fields of data replace the
\* document's, every other field stays.
SetMerge(doc, data) ==
    [f \in DuesFields |-> IF f \in DOMAIN data THEN data[f] ELSE doc[f]]

\* A reference that always names the same member.
duesRefFixed(meta) == <<"o1", "m1">>

\* db.collection('artifacts').doc(organizationId).collection('users').doc(memberId)
\*   .collection('dues').doc(memberId)
duesRef(meta) == <<meta.organizationId[1], meta.memberId[1]>>

\* doc(undefined) throws: the path needs both ids.
PathOk(meta) == meta.organizationId # None /\ meta.memberId # None

-----------------------------------------------------------------------------
\* The handlers.  st is the Record Store [dues, donations]; today is the date the
\* handler reads; fx says how each external call of this run ends:
\*   fx.duesWrite, fx.donationWrite  the Firestore write is accepted
\*   fx.retrieve                     stripe.paymentIntents.retrieve answers
\* A handler returns the store it leaves, the provider calls it made, and
\* whether its catch block logged an error (lines 253-255, 278-280, 304-306).

Fx(d, n, r) == [duesWrite |-> d, donationWrite |-> n, retrieve |-> r]

\* The outcomes that matter to the handler of each event type: all calls
\* succeed, or one of the calls the handler makes fails.
Effects(e) ==
    {Fx(TRUE, TRUE, TRUE)}
    \cup (IF e.type \in HandledTypes
          THEN {Fx(FALSE, TRUE, TRUE)} ELSE {})
    \cup (IF e.type = "payment_intent.succeeded"
             /\ ProviderIntent(e.object).metadata.paymentType = Some("donation")
          THEN {Fx(TRUE, FALSE, TRUE)} ELSE {})
    \cup (IF e.type = "charge.refunded" THEN {Fx(TRUE, TRUE, FALSE)} ELSE {})

Result(st, handler, calls, writes, caught) ==
    [dues |-> st.dues, donations |-> st.donations, handler |-> handler,
     calls |-> calls, writes |-> writes, caught |-> caught, threw |-> FALSE]

\* Firestore refuses a document that holds an undefined field value.
Storable(data) == \A f \in DOMAIN data : data[f] # None

\* The fields of a paid record with the amount left in minor units.
PaidDataMinorUnits(pi, today) ==
    [memberName |-> pi.metadata.memberName,
     amount |-> Some(<<pi.amount, 0>>),
     status |-> Some("Paid"),
     dueDate |-> Some(today),
     paidDate |-> Some(today),
     paymentIntentId |-> Some(pi.id),
     stripeChargeId |-> Some(pi.latest_charge)]

\* lines 229-237: the fields handlePaymentSuccess writes
PaidData(pi, today) ==
    [memberName |-> pi.metadata.memberName,
     amount |-> Some(Div100(pi.amount)),
     status |-> Some("Paid"),
     dueDate |-> Some(today),
     paidDate |-> Some(today),
     paymentIntentId |-> Some(pi.id),
     stripeChargeId |-> Some(pi.latest_charge)]

\* lines 243-249: the donation document
DonationData(pi, today) ==
    [campaignName |-> pi.description,
     donorName |-> pi.metadata.memberName[1],
     amount |-> Div100(pi.amount),
     date |-> today,
     paymentIntentId |-> pi.id]

\* A write that puts the new donation in place of the member's donations.
AddDonationReplace(list, pi, today) == <<DonationData(pi, today)>>

\* lines 241-249: collection('donations').add(...) creates a new document
AddDonation(list, pi, today) == Append(list, DonationData(pi, today))

\* lines 220-256.  The metadata of a provider payment intent is always an
\* object, so the destructuring at line 221 does not throw; every later error is
\* caught at line 253.
handlePaymentSuccess(st, pi, today, fx) ==
    LET meta == pi.metadata
        data == PaidData(pi, today)
        h == "handlePaymentSuccess"
    IN  IF ~(db /\ PathOk(meta) /\ Storable(data) /\ fx.duesWrite)
        THEN Result(st, h, <<>>, {}, TRUE)
        ELSE LET k == duesRef(meta)
                 st1 == [st EXCEPT !.dues[k] = SetMerge(@, data)]
             IN  IF meta.paymentType # Some("donation")
                 THEN Result(st1, h, <<>>, {"dues"}, FALSE)
                 ELSE IF ~fx.donationWrite
                 THEN Result(st1, h, <<>>, {"dues"}, TRUE)
                 ELSE Result([st1 EXCEPT !.donations[k] = AddDonation(@, pi, today)],
                             h, <<>>, {"dues", "donations"}, FALSE)

\* A failure reason that ignores the provider's message.
FailureReasonGeneric(err) == "Payment failed"

\* line 274: paymentIntent.last_payment_error?.message || 'Payment failed'
\* (a missing error, a missing message and the empty message are all falsy)
FailureReason(err) ==
    IF err = None THEN "Payment failed"
    ELSE IF err[1].message = None \/ err[1].message = Some("") THEN "Payment failed"
    ELSE err[1].message[1]

\* lines 268-275: the fields handlePaymentFailure writes
FailedData(pi, err, today) ==
    [memberName |-> pi.metadata.memberName,
     amount |-> Some(Div100(pi.amount)),
     status |-> Some("Failed"),
     dueDate |-> Some(today),
     paymentIntentId |-> Some(pi.id),
     failureReason |-> Some(FailureReason(err))]

\* handlePaymentFailure without its try/catch: an error leaves the handler.
handlePaymentFailureNoCatch(st, pi, err, today, fx) ==
    LET meta == pi.metadata
        data == FailedData(pi, err, today)
        h == "handlePaymentFailure"
    IN  IF ~(db /\ PathOk(meta) /\ Storable(data) /\ fx.duesWrite)
        THEN [Result(st, h, <<>>, {}, FALSE) EXCEPT !.threw = TRUE]
        ELSE Result([st EXCEPT !.dues[duesRef(meta)] = SetMerge(@, data)],
                    h, <<>>, {"dues"}, FALSE)

\* lines 259-281; every error after line 260 is caught at line 278.
handlePaymentFailure(st, pi, err, today, fx) ==
    LET meta == pi.metadata
        data == FailedData(pi, err, today)
        h == "handlePaymentFailure"
    IN  IF ~(db /\ PathOk(meta) /\ Storable(data) /\ fx.duesWrite)
        THEN Result(st, h, <<>>, {}, TRUE)
        ELSE Result([st EXCEPT !.dues[duesRef(meta)] = SetMerge(@, data)],
                    h, <<>>, {"dues"}, FALSE)

\* line 300: charge.refunds.data[0].id throws when the charge carries no refund entry.
HasRefundEntry(charge) == Len(charge.refunds) > 0

\* The fields of a refunded record with the refund id taken from the last
\* (oldest) refund entry.
RefundDataLastEntry(memberName, charge, today) ==
    [memberName |-> memberName,
     amount |-> Some(Div100(charge.amount_refunded)),
     status |-> Some("Refunded"),
     refundDate |-> Some(today),
     refundId |-> Some(charge.refunds[Len(charge.refunds)])]

\* lines 295-301: the fields handleRefund writes
RefundData(memberName, charge, today) ==
    [memberName |-> memberName,
     amount |-> Some(Div100(charge.amount_refunded)),
     status |-> Some("Refunded"),
     refundDate |-> Some(today),
     refundId |-> Some(charge.refunds[1])]

\* line 287: stripe.paymentIntents.retrieve(charge.payment_intent)
Retrieve(charge) ==
    [op |-> "paymentIntents.retrieve", id |-> ChargeIntent(charge.object)]

\* lines 284-307; every error is caught at line 304.
handleRefund(st, charge, today, fx) ==
    LET call == <<Retrieve(charge)>>
        meta == ProviderIntent(call[1].id).metadata
        h == "handleRefund"
    IN  IF ~(fx.retrieve /\ db /\ PathOk(meta) /\ HasRefundEntry(charge)
             /\ meta.memberName # None /\ fx.duesWrite)
        THEN Result(st, h, call, {}, TRUE)
        ELSE Result([st EXCEPT !.dues[duesRef(meta)] =
                          SetMerge(@, RefundData(meta.memberName, charge, today))],
                    h, call, {"dues"}, FALSE)

\* A switch whose default case treats the event as a succeeded intent.
DispatchDefaultSuccess(st, event, today, fx) ==
    CASE event.type = "payment_intent.payment_failed" ->
            handlePaymentFailure(st, ProviderIntent(event.object),
                                 event.last_payment_error, today, fx)
      [] event.type = "charge.refunded" ->
            handleRefund(st, event, today, fx)
      [] OTHER -> handlePaymentSuccess(st, ProviderIntent(event.object), today, fx)

\* lines 198-210: the switch on event.type
Dispatch(st, event, today, fx) ==
    CASE event.type = "payment_intent.succeeded" ->
            handlePaymentSuccess(st, ProviderIntent(event.object), today, fx)
      [] event.type = "payment_intent.payment_failed" ->
            handlePaymentFailure(st, ProviderIntent(event.object),
                                 event.last_payment_error, today, fx)
      [] event.type = "charge.refunded" ->
            handleRefund(st, event, today, fx)
      [] OTHER -> Result(st, "none", <<>>, {}, FALSE)

-----------------------------------------------------------------------------
\* The webhook route and the middleware in front of it.

ContentTypes == {"application/json", "text/plain"}

\* The bytes of a request body that holds event e, and what JavaScript makes of a
\* parsed object when it is used as a string.
Bytes(e) == <<"json", e>>
ObjectString == <<"[object Object]">>

\* The stripe-signature header: None when missing, else the key that signed it
\* and the content it was computed over.  The provider signs the raw body with
\* the endpoint's secret "whsec".
Signatures(e) ==
    {None,
     Some([key |-> "whsec", over |-> Bytes(e)]),
     Some([key |-> "whsec", over |-> ObjectString]),
     Some([key |-> "other", over |-> Bytes(e)])}

Requests ==
    UNION {{[contentType |-> c, signature |-> s, raw |-> e, body |-> "unset",
             parsed |-> FALSE] : c \in ContentTypes, s \in Signatures(e)} :
           e \in Events}

\* line 54, app.use(express.json(...)): a body of type application/json is read
\* and parsed, and the request is marked as parsed (req._body); any other
\* request gets the empty object as its body.
expressJson(req) ==
    IF req.parsed THEN req
    ELSE IF req.contentType = "application/json"
    THEN [req EXCEPT !.body = "object", !.parsed = TRUE]
    ELSE [req EXCEPT !.body = "empty object"]

\* line 186, express.raw({type: 'application/json'}): a body of that type that no
\* parser has read yet becomes a Buffer of its bytes.
expressRaw(req) ==
    IF req.parsed THEN req
    ELSE IF req.contentType = "application/json"
    THEN [req EXCEPT !.body = "buffer", !.parsed = TRUE]
    ELSE req

\* lines 54 and 186: the parsers a webhook request passes, in registration order
Middleware(req) == expressRaw(expressJson(req))

\* What the signature scheme signs for a payload: the bytes of a Buffer, the
\* string conversion of anything else.
SignedPayload(req) ==
    IF req.body = "buffer" THEN Bytes(req.raw) ELSE ObjectString

\* constructEvent with the signature comparison left out: any request that
\* carries a stripe-signature header is taken as an event.
constructEventUnchecked(req) == req.signature # None

\* line 191, stripe.webhooks.constructEvent(req.body, sig, secret): the header must
\* be a signature of the payload under the secret, and the payload must then
\* parse as JSON.  TRUE iff it returns an event (req.raw) instead of throwing.
constructEvent(req) ==
    /\ req.signature # None
    /\ req.signature[1].key = "whsec"
    /\ req.signature[1].over = SignedPayload(req)
    /\ req.body = "buffer"

Store == [dues |-> dues, donations |-> donations]

NoRequest ==
    [contentType |-> "none", signature |-> None, event |-> Event("none", "none", None, 0, <<>>),
     fx |-> Fx(TRUE, TRUE, TRUE),
     date |-> 0, payload |-> "unset", verified |-> FALSE, handler |-> "none",
     calls |-> <<>>, writes |-> {}, caught |-> FALSE, status |-> 0, body |-> "none",
     again |-> "no"]

\* Whether event e, handled at the current date, repeats the request handled
\* just before: "no", or a redelivery after a delivery whose dues write was
\* applied / was lost.
Again(e) ==
    IF last.verified /\ last.event = e /\ last.date = clock
    THEN (IF "dues" \in last.writes THEN "after applied" ELSE "after lost")
    ELSE "no"

\* lines 197-217: the route once constructEvent has returned event: the answer
\* is res.json({received: true}), or 500 when the handler threw (lines 213-216).
Reconcile(req, event, fx) ==
    LET r == Dispatch(Store, event, clock, fx)
    IN  /\ dues' = r.dues
        /\ donations' = r.donations
        /\ last' = [contentType |-> req.contentType, signature |-> req.signature,
                    event |-> event, fx |-> fx, date |-> clock, payload |-> req.body,
                    verified |-> TRUE, handler |-> r.handler, calls |-> r.calls,
                    writes |-> r.writes, caught |-> r.caught,
                    status |-> IF r.threw THEN 500 ELSE 200,
                    body |-> IF r.threw THEN "Webhook processing failed" ELSE "received",
                    again |-> Again(event)]

\* lines 192-195: constructEvent threw
Reject(req) ==
    /\ UNCHANGED <<dues, donations>>
    /\ last' = [NoRequest EXCEPT !.contentType = req.contentType,
                                 !.signature = req.signature, !.event = req.raw,
                                 !.date = clock, !.payload = req.body,
                                 !.status = 400, !.body = "Webhook Error"]

\* lines 186-217: app.post('/api/webhooks/stripe', express.raw(...), ...)
WebhookRoute(request, fx) ==
    LET req == Middleware(request)
    IN  /\ delivered < MaxDeliveries
        /\ delivered' = delivered + 1
        /\ IF constructEvent(req) THEN Reconcile(req, req.raw, fx) ELSE Reject(req)
        /\ UNCHANGED <<db, clock, ivars>>

\* A request the provider signed whose raw body reaches constructEvent: the
\* route from line 197 on.
VerifiedRequest(e) ==
    [contentType |-> "application/json",
     signature |-> Some([key |-> "whsec", over |-> Bytes(e)]),
     raw |-> e, body |-> "buffer", parsed |-> TRUE]

DeliverVerified(e, fx) ==
    /\ delivered < MaxDeliveries
    /\ delivered' = delivered + 1
    /\ Reconcile(VerifiedRequest(e), e, fx)
    /\ UNCHANGED <<db, clock, ivars>>

\* The date changes between requests.
Tick ==
    /\ clock < MaxDay
    /\ clock' = clock + 1
    /\ UNCHANGED <<db, dues, donations, delivered, last, ivars>>

\* The two requests that may be in flight at once.
Slots == {"first", "second"}

\* A slot with no request: pc says which awaited call the handler waits for.
Idle ==
    [pc |-> "idle", req |-> None, memberData |-> None, customer |-> None, pi |-> None,
     status |-> 0]

\* No API request handled yet.
\* frontend-integration.js lines 5-10, 169-172 and 321: the page after the script
\* ran.  No statement of the script assigns window.currentClientSecret or
\* window.currentPaymentIntentId before payDues runs.  modals counts the
\* #payment-modal elements of the document, elements is the client secret
\* this.elements was made for; returned, confirm and outcome record what payDues
\* returned last, the argument of the last confirmPayment call and what the
\* page did last.
LoadedPage ==
    [isInitialized |-> FALSE, stripe |-> FALSE, elements |-> None, modals |-> 0,
     currentPaymentIntentId |-> None, currentClientSecret |-> None,
     returned |-> None, confirm |-> None, outcome |-> "loaded"]

NoCall ==
    [endpoint |-> "none", req |-> <<>>, failAt |-> "none", date |-> 0,
     status |-> 0, body |-> <<>>, provider |-> <<>>, store |-> <<>>]

\* lines 6-36: the store and the provider hold what earlier requests left; a
\* fresh deployment starts with none.  db is the Firestore handle, or null in
\* demo mode.
InitServer ==
    /\ db \in BOOLEAN
    /\ dues = [k \in MemberKeys |-> NoDoc]
    /\ donations = [k \in MemberKeys |-> <<>>]
    /\ clock = 1
    /\ delivered = 0
    /\ last = NoRequest
    /\ customers = <<>>
    /\ intents = <<>>
    /\ transfers = <<>>
    /\ served = 0
    /\ flight = [s \in Slots |-> Idle]
    /\ api = NoCall
    /\ page = LoadedPage

InitStore == InitServer /\ piRecords = <<>> /\ expenses = <<>>

\* The webhook specifications run with a provider key.
Init == InitStore /\ stripeKey = TRUE

Next ==
    \/ \E request \in Requests : \E fx \in Effects(request.raw) : WebhookRoute(request, fx)
    \/ Tick

\* The server as written: every webhook request passes the middleware.
Spec == Init /\ [][Next]_vars

NextVerified ==
    \/ \E e \in Events : \E fx \in Effects(e) : DeliverVerified(e, fx)
    \/ Tick

\* The reconciliation of events that passed verification.
SpecVerified == Init /\ [][NextVerified]_vars

-----------------------------------------------------------------------------
\* Properties of the webhook endpoint (Spec).

\* The request handled last was signed by the provider over the very payload
\* that reached constructEvent, and that payload was the raw body.
Authentic(l) ==
    /\ l.signature # None
    /\ l.signature[1].key = "whsec"
    /\ l.signature[1].over = Bytes(l.event)
    /\ l.payload = "buffer"

\* C1: a webhook request whose signature verification fails is answered 400,
\* invokes none of the three handlers, makes no provider call and leaves the
\* Record Store unchanged; a handler runs only for a request that verification
\* accepted (verification precedes dispatch).
C1_UnverifiedRejected ==
    [][delivered' # delivered =>
         /\ ~Authentic(last') =>
               /\ last'.status = 400
               /\ ~last'.verified
               /\ last'.handler = "none"
               /\ last'.calls = <<>>
               /\ dues' = dues
               /\ donations' = donations
         /\ last'.handler # "none" => Authentic(last')]_vars

\* C1 witness: an intent-succeeded event signed with a key that is not the
\* endpoint's secret was answered 400 while the Record Store is configured.
C1_Witness ==
    /\ db
    /\ last.status = 400
    /\ last.signature = Some([key |-> "other", over |-> Bytes(last.event)])
    /\ last.event.type = "payment_intent.succeeded"

\* C2: a request with a JSON body and a stripe-signature header valid for that
\* raw body reaches verification as the raw body, passes it, is dispatched by
\* event type and is answered {received: true}.
C2_SignedJsonAccepted ==
    (/\ last.contentType = "application/json"
     /\ last.signature = Some([key |-> "whsec", over |-> Bytes(last.event)]))
    => /\ last.payload = "buffer"
       /\ last.verified
       /\ last.status = 200
       /\ last.body = "received"
       /\ (last.event.type \in HandledTypes => last.handler # "none")

-----------------------------------------------------------------------------
\* Properties of the reconciliation of verified events (SpecVerified).

Handled == delivered' # delivered

\* The payment intent the event handled last is about, and the metadata that
\* names its member.
LastIntent ==
    IF last.event.type = "charge.refunded"
    THEN ProviderIntent(ChargeIntent(last.event.object))
    ELSE ProviderIntent(last.event.object)

LastMeta == LastIntent.metadata

\* The Record Store took the dues document the handler wrote: it is
\* configured, the write did not fail and no field written was undefined.
DuesAccepted == db /\ last.fx.duesWrite /\ LastMeta.memberName # None

MinorUnits(amount) == 100 * amount[1] + amount[2]

\* C3: once a dues record has status Paid, Failed or Refunded, no later webhook
\* event changes its status to another value.
C3_TerminalStatus ==
    [][\A k \in MemberKeys :
          dues[k].status # None => dues'[k].status = dues[k].status]_vars

\* C4: a member's donations hold at most one record per provider payment-intent
\* id, also after redelivery of an intent-succeeded event.
C4_OneDonationPerIntent ==
    \A k \in MemberKeys : \A i, j \in DOMAIN donations[k] :
        i # j => donations[k][i].paymentIntentId # donations[k][j].paymentIntentId

\* C5 (as claimed): delivering the same intent-succeeded or intent-failed event
\* a second time, on the same date and with nothing in between, leaves the dues
\* records as they were after the first delivery.
C5_RedeliveryIdempotent ==
    [][(Handled /\ last'.again # "no"
        /\ last'.event.type \in {"payment_intent.succeeded", "payment_intent.payment_failed"})
       => dues' = dues]_vars

\* C5 (amended): the same, when the first delivery's dues write was applied.
C5_AppliedRedeliveryIdempotent ==
    [][(Handled /\ last'.again = "after applied"
        /\ last'.event.type \in {"payment_intent.succeeded", "payment_intent.payment_failed"})
       => dues' = dues]_vars

\* C5 witness: an intent-failed event was redelivered and written again after a
\* first delivery that was written.
C5_Witness ==
    /\ last.again = "after applied"
    /\ last.event.type = "payment_intent.payment_failed"
    /\ "dues" \in last.writes

\* What C6 says of the dues record after an intent-succeeded event.
PaidAsReported ==
    LET d == dues[duesRef(LastMeta)]
    IN  /\ d.status = Some("Paid")
        /\ d.amount # None
        /\ MinorUnits(d.amount[1]) = LastIntent.amount
        /\ d.amount[1][2] < 100
        /\ d.paidDate = Some(last.date)
        /\ d.paymentIntentId = Some(LastIntent.id)
        /\ d.stripeChargeId = Some(LastIntent.latest_charge)

FailedAsReported ==
    LET d == dues[duesRef(LastMeta)]
        err == last.event.last_payment_error
    IN  /\ d.status = Some("Failed")
        /\ d.failureReason =
              IF err # None /\ err[1].message # None
              THEN err[1].message ELSE Some("Payment failed")

RefundedAsReported ==
    LET d == dues[duesRef(LastMeta)]
    IN  /\ d.status = Some("Refunded")
        /\ d.amount # None
        /\ MinorUnits(d.amount[1]) = last.event.amount_refunded
        /\ d.amount[1][2] < 100
        /\ d.refundDate = Some(last.date)
        /\ last.event.refunds # <<>>
        /\ d.refundId = Some(Head(last.event.refunds))

\* The owning payment intent of the refunded charge was fetched from the provider.
Refetched ==
    last.calls = <<[op |-> "paymentIntents.retrieve",
                    id |-> ChargeIntent(last.event.object)]>>

C9_UnhandledTypeIsNoop ==
    [][(Handled /\ last'.verified /\ last'.event.type \notin HandledTypes)
       => /\ dues' = dues
          /\ donations' = donations
          /\ last'.writes = {}
          /\ last'.calls = <<>>
          /\ last'.handler = "none"
          /\ last'.status = 200
          /\ last'.body = "received"]_vars

\* C9 witness: payment_intent.created for pi_1 was acknowledged while the store
\* is configured and already holds a dues record.
C9_Witness ==
    /\ db
    /\ last.event = Event("payment_intent.created", "pi_1", None, 0, <<>>)
    /\ last.status = 200
    /\ \E k \in MemberKeys : dues[k] # NoDoc

\* The handler of the request handled last failed before its dues write took
\* effect: store not configured, write refused or failed, re-fetch failed.
HandlerFailed(l) ==
    /\ l.handler # "none"
    /\ \/ ~db
       \/ ~l.fx.duesWrite
       \/ l.handler = "handleRefund" /\ ~l.fx.retrieve

\* C10: every verified event is answered {received: true}, also when its
\* handler fails internally; the failure is caught and logged, never answered
\* with an error status, and the update is lost (no record changes).
C10_FailureAcknowledged ==
    [][(Handled /\ last'.verified)
       => /\ last'.status = 200
          /\ last'.body = "received"
          /\ HandlerFailed(last') =>
                /\ last'.caught
                /\ last'.writes = {}
                /\ dues' = dues
                /\ donations' = donations
          /\ (~last'.fx.donationWrite /\ last'.handler = "handlePaymentSuccess")
                => donations' = donations]_vars

\* C10 witness: with the store configured, a dues write failed for an event that
\* names a member, and the event was acknowledged.
C10_Witness ==
    /\ db
    /\ last.verified
    /\ last.handler = "handlePaymentFailure"
    /\ PathOk(LastMeta)
    /\ ~last.fx.duesWrite
    /\ last.caught
    /\ last.status = 200


-----------------------------------------------------------------------------
\* The issuance endpoints: what they read and call.

\* The member documents at artifacts/{org}/users/{member}/members/{member}
\* (lines 102-105): two registered members; the server never writes them.
Members ==
    [k \in MemberKeys |->
        CASE k = <<"o1", "m1">> -> Some([name |-> "Test", email |-> "test@example.com"])
          [] k = <<"o2", "m2">> -> Some([name |-> "Bob", email |-> "bob@example.com"])
          [] OTHER -> None]

\* line 100: the member data used when there is no Record Store
DemoMember == [name |-> "Demo Member", email |-> "demo@example.com"]

\* A lookup that answers the demo member for a member that has no document.
membersGetDefault(key) == IF Members[key] = None THEN Some(DemoMember) ELSE Members[key]

\* lines 102-112 (and 355-362, 473-482): memberRef.get(); None when
\* memberDoc.exists is false, else memberDoc.data()
membersGet(key) == Members[key]

\* A request amount is a decimal number <<units, hundredths>>.
\* body('amount').isInt({ min: 50 }) (line 59)
isInt(a, min) == a[2] = 0 /\ a[1] >= min

\* body(field).notEmpty() (lines 61-63)
notEmpty(v) == v # ""

\* One entry of errors.array() for a field whose check failed.
Violation(ok, field) == IF ok THEN <<>> ELSE <<field>>

\* A validator chain that accepts every currency.
validatePaymentIntentAnyCurrency(req) ==
    Violation(isInt(req.amount, 50), "amount")
    \o Violation(notEmpty(req.memberId), "memberId")
    \o Violation(notEmpty(req.organizationId), "organizationId")
    \o Violation(notEmpty(req.description), "description")

\* lines 58-64 and validationResult(req) at line 88: the fields in violation
validatePaymentIntent(req) ==
    Violation(isInt(req.amount, 50), "amount")
    \o Violation(req.currency = "usd", "currency")
    \o Violation(notEmpty(req.memberId), "memberId")
    \o Violation(notEmpty(req.organizationId), "organizationId")
    \o Violation(notEmpty(req.description), "description")

\* The body of an answer; every field a handler may send, None when not sent.
NoBody ==
    [error |-> None, details |-> <<>>, clientSecret |-> None, paymentIntentId |-> None,
     success |-> None, expenseId |-> None, transferId |-> None, demo |-> None,
     payments |-> None]

\* How one external call of a request fails: failAt names the call that
\* throws ("none": every call succeeds).  A provider call also throws when the
\* client has no usable key.
\* A provider and a Record Store that never fail.
ProviderOkAlways(failAt, c) == TRUE
StoreOkAlways(failAt, c) == TRUE

ProviderOk(failAt, c) == stripeKey /\ failAt # c
StoreOk(failAt, c) == failAt # c

Last(set) == CHOOSE i \in set : \A j \in set : j <= i

\* stripe.customers.list({ email, limit: 1 }) (lines 120-123): the newest
\* customer with that email, if any
customersList(cs, email) ==
    LET found == {i \in 1..Len(cs) : cs[i].email = email}
    IN  IF found = {} THEN None ELSE Some(cs[Last(found)])

\* A customer created without the contact address.
customersCreateNoEmail(cs, memberData, memberId, organizationId) ==
    [id |-> "cus_" \o ToString(Len(cs) + 1), email |-> "",
     name |-> memberData.name,
     metadata |-> [memberId |-> memberId, organizationId |-> organizationId]]

\* stripe.customers.create({ email, name, metadata }) (lines 128-135)
customersCreate(cs, memberData, memberId, organizationId) ==
    [id |-> "cus_" \o ToString(Len(cs) + 1), email |-> memberData.email,
     name |-> memberData.name,
     metadata |-> [memberId |-> memberId, organizationId |-> organizationId]]

\* lines 118-136 (and again 393-410, 484-502): get or create the provider
\* customer of the member.  ok is FALSE when a provider call threw.
resolveCustomer(cs, memberData, memberId, organizationId, failAt) ==
    IF ~ProviderOk(failAt, "customers.list")
    THEN [ok |-> FALSE, customers |-> cs, customer |-> None, calls |-> <<"customers.list">>]
    ELSE LET existing == customersList(cs, memberData.email)
         IN  IF existing # None
             THEN [ok |-> TRUE, customers |-> cs, customer |-> existing,
                   calls |-> <<"customers.list">>]
             ELSE IF ~ProviderOk(failAt, "customers.create")
             THEN [ok |-> FALSE, customers |-> cs, customer |-> None,
                   calls |-> <<"customers.list", "customers.create">>]
             ELSE LET c == customersCreate(cs, memberData, memberId, organizationId)
                  IN  [ok |-> TRUE, customers |-> Append(cs, c), customer |-> Some(c),
                       calls |-> <<"customers.list", "customers.create">>]

\* The metadata of an issued intent: the four identifying fields of Meta and
\* the two expenses/submit adds.
IssuedMeta(o, m, t, n, category, expenseId) ==
    [organizationId |-> Some(o), memberId |-> Some(m), paymentType |-> Some(t),
     memberName |-> Some(n), category |-> category, expenseId |-> expenseId]

\* Intent metadata that names another member of the organization.
DuesMetadataOtherMember(req, memberData) ==
    [organizationId |-> Some(req.organizationId),
     memberId |-> Some(IF req.memberId = "m1" THEN "m2" ELSE "m1"),
     paymentType |-> Some("dues"), memberName |-> Some(memberData.name),
     category |-> None, expenseId |-> None]

\* Intent metadata that leaves out the member's name.
DuesMetadataNoName(req, memberData) ==
    [organizationId |-> Some(req.organizationId), memberId |-> Some(req.memberId),
     paymentType |-> Some("dues"), memberName |-> None, category |-> None,
     expenseId |-> None]

\* lines 144-149: the metadata create-payment-intent attaches
DuesMetadata(req, memberData) ==
    IssuedMeta(req.organizationId, req.memberId, "dues", memberData.name, None, None)

\* What stripe.paymentIntents.create returns for the parameters given: a new
\* intent that waits for a payment method.
paymentIntentsCreate(is, amount, currency, customer, description, metadata) ==
    LET id == "pi_n" \o ToString(Len(is) + 1)
    IN  [id |-> id, amount |-> amount, currency |-> currency, customer |-> customer,
         description |-> description, metadata |-> metadata,
         status |-> "requires_payment_method", client_secret |-> id \o "_secret",
         latest_charge |-> "ch_" \o id]

\* A PaymentIntent record whose status is a fixed word.
PaymentIntentRecordPending(pi, req, memberData, today) ==
    [paymentIntentId |-> pi.id, amount |-> req.amount[1], currency |-> req.currency,
     status |-> "Pending", description |-> req.description, createdAt |-> today,
     memberId |-> req.memberId, memberName |-> memberData.name]

\* lines 159-168: the PaymentIntent record
PaymentIntentRecord(pi, req, memberData, today) ==
    [paymentIntentId |-> pi.id, amount |-> req.amount[1], currency |-> req.currency,
     status |-> pi.status, description |-> req.description, createdAt |-> today,
     memberId |-> req.memberId, memberName |-> memberData.name]

\* The provider's and the Record Store's contents the issuance endpoints work on.
World ==
    [customers |-> customers, intents |-> intents, transfers |-> transfers,
     piRecords |-> piRecords, expenses |-> expenses]

\* What a handler leaves: the answer, the provider calls and the Record Store
\* operations it made, in order, and the contents it leaves.
Answer(status, body, provider, store, w) ==
    [status |-> status, body |-> body, provider |-> provider, store |-> store, world |-> w]

\* The catch block of a handler (lines 176-182, 450-456, 537-543).
Failed500(error, provider, store, w) ==
    Answer(500, [NoBody EXCEPT !.error = Some(error)], provider, store, w)

\* lines 88-94, 319-325, 462-468: the answer to a request that fails validation
Invalid400(violations) ==
    Answer(400, [NoBody EXCEPT !.error = Some("Validation failed"), !.details = violations],
           <<>>, <<>>, World)

\* lines 86-183: POST /api/payments/create-payment-intent
createPaymentIntent(req, failAt, today) ==
    LET violations == validatePaymentIntent(req)
        key == <<req.organizationId, req.memberId>>
        e500 == "Failed to create payment intent"
        lookup == IF db THEN <<"members.get">> ELSE <<>>
    IN  IF violations # <<>>
        THEN Invalid400(violations)
        ELSE IF db /\ ~StoreOk(failAt, "members.get")
        THEN Failed500(e500, <<>>, lookup, World)
        ELSE IF db /\ membersGet(key) = None
        THEN Answer(404, [NoBody EXCEPT !.error = Some("Member not found")],
                    <<>>, lookup, World)
        ELSE
        LET memberData == IF db THEN membersGet(key)[1] ELSE DemoMember
            c == resolveCustomer(customers, memberData, req.memberId,
                                 req.organizationId, failAt)
            w1 == [World EXCEPT !.customers = c.customers]
        IN  IF ~c.ok
            THEN Failed500(e500, c.calls, lookup, w1)
            ELSE IF ~ProviderOk(failAt, "paymentIntents.create")
            THEN Failed500(e500, Append(c.calls, "paymentIntents.create"), lookup, w1)
            ELSE
            LET pi == paymentIntentsCreate(intents, req.amount[1], req.currency,
                                           c.customer[1].id, req.description,
                                           DuesMetadata(req, memberData))
                w2 == [w1 EXCEPT !.intents = Append(@, pi)]
                calls == Append(c.calls, "paymentIntents.create")
                rec == [key |-> key,
                        doc |-> PaymentIntentRecord(pi, req, memberData, today)]
                ok == [NoBody EXCEPT !.clientSecret = Some(pi.client_secret),
                                     !.paymentIntentId = Some(pi.id)]
            IN  IF ~db
                THEN Answer(200, ok, calls, lookup, w2)
                ELSE IF ~StoreOk(failAt, "payment_intents.add")
                THEN Failed500(e500, calls, Append(lookup, "payment_intents.add"), w2)
                ELSE Answer(200, ok, calls, Append(lookup, "payment_intents.add"),
                            [w2 EXCEPT !.piRecords = Append(@, rec)])

\* The create-payment-intent requests: well-formed ones for registered and
\* unregistered members, and one request per validation rule that breaks it.
ValidIntentRequests ==
    {[amount |-> <<r[1], 0>>, currency |-> "usd", memberId |-> r[3],
      organizationId |-> r[2], description |-> "Spring dues"] :
        r \in {<<15000, "o1", "m1">>, <<50, "o2", "m2">>, <<15000, "o1", "m2">>}}

BaseIntentRequest ==
    [amount |-> <<15000, 0>>, currency |-> "usd", memberId |-> "m1",
     organizationId |-> "o1", description |-> "Spring dues"]

InvalidIntentRequests ==
    {[BaseIntentRequest EXCEPT !.amount = <<49, 0>>],
     [BaseIntentRequest EXCEPT !.amount = <<150, 50>>],
     [BaseIntentRequest EXCEPT !.currency = "eur"],
     [BaseIntentRequest EXCEPT !.memberId = ""],
     [BaseIntentRequest EXCEPT !.organizationId = ""],
     [BaseIntentRequest EXCEPT !.description = ""],
     [BaseIntentRequest EXCEPT !.amount = <<0, 0>>, !.currency = "", !.memberId = ""]}

\* The calls of create-payment-intent that can throw.
IntentFailures ==
    {"none", "members.get", "customers.list", "customers.create",
     "paymentIntents.create", "payment_intents.add"}

\* What an API request leaves in the provider, the Record Store and the record
\* of the request handled last.
\* The server handles one API request: r is what the handler leaves.
Respond(endpoint, req, failAt, r) ==
    /\ served < MaxCalls
    /\ served' = served + 1
    /\ customers' = r.world.customers
    /\ intents' = r.world.intents
    /\ transfers' = r.world.transfers
    /\ piRecords' = r.world.piRecords
    /\ expenses' = r.world.expenses
    /\ api' = [endpoint |-> endpoint, req |-> req, failAt |-> failAt, date |-> clock,
               status |-> r.status, body |-> r.body, provider |-> r.provider,
               store |-> r.store]
    /\ UNCHANGED <<db, dues, donations, clock, delivered, last, stripeKey, flight>>

\* A request that does not come from the page.
Serve(endpoint, req, failAt, r) == Respond(endpoint, req, failAt, r) /\ UNCHANGED page

CreatePaymentIntent(req, failAt) ==
    Serve("create-payment-intent", req, failAt, createPaymentIntent(req, failAt, clock))

IntentRequests == ValidIntentRequests \cup InvalidIntentRequests

-----------------------------------------------------------------------------
\* Expenses.  An expense document is the record of its fields; the documents of
\* all members are kept in creation order, each with its path: the member's key
\* and the document id.

ExpenseFields ==
    {"submitterName", "amount", "category", "description", "date", "status",
     "receiptUrl", "submittedAt", "memberId", "organizationId",
     "reimbursementDate", "transferId"}

NoExpense == [f \in ExpenseFields |-> None]

\* body('amount').isFloat({ min: 0.01 }) (lines 67, 312)
isFloat(a, min) == 100 * a[1] + a[2] >= 100 * min[1] + min[2]

\* A conversion that drops the fraction of the major-unit amount.
CentsWhole(a) == 100 * a[1]

\* Math.round(parseFloat(amount) * 100) (lines 413, 507): major to minor units
Cents(a) == 100 * a[1] + a[2]

\* receiptUrl || '' (lines 337, 528)
OrEmpty(v) == IF v = None THEN "" ELSE v[1]

\* Date.now().toString() (lines 370, 423, 432): a timestamp, never the id the
\* Record Store gives a new document
DateNow(today) == "17000" \o ToString(today)

\* The id collection.add() gives the next document.
AutoId(exps) == "exp_" \o ToString(Len(exps) + 1)

\* lines 311-316: the fields in violation
validateExpenseSubmit(req) ==
    Violation(notEmpty(req.submitterName), "submitterName")
    \o Violation(isFloat(req.amount, <<0, 1>>), "amount")
    \o Violation(notEmpty(req.category), "category")
    \o Violation(notEmpty(req.description), "description")
    \o Violation(notEmpty(req.memberId), "memberId")
    \o Violation(notEmpty(req.organizationId), "organizationId")

\* An expense document that is stored as already settled.
ExpenseDataReimbursed(req, today) ==
    [submitterName |-> Some(req.submitterName), amount |-> Some(req.amount),
     category |-> Some(req.category), description |-> Some(req.description),
     date |-> Some(today), status |-> Some("Reimbursed"),
     receiptUrl |-> Some(OrEmpty(req.receiptUrl)), submittedAt |-> Some(today),
     memberId |-> Some(req.memberId), organizationId |-> Some(req.organizationId)]

\* lines 330-341: expenseData
ExpenseData(req, today) ==
    [submitterName |-> Some(req.submitterName), amount |-> Some(req.amount),
     category |-> Some(req.category), description |-> Some(req.description),
     date |-> Some(today), status |-> Some("Pending"),
     receiptUrl |-> Some(OrEmpty(req.receiptUrl)), submittedAt |-> Some(today),
     memberId |-> Some(req.memberId), organizationId |-> Some(req.organizationId)]

\* collection('expenses').add(data) (lines 345-347): a new document, new id
expensesAdd(exps, key, data) ==
    Append(exps, [key |-> key, id |-> AutoId(exps),
                  doc |-> [f \in ExpenseFields |->
                              IF f \in DOMAIN data THEN data[f] ELSE None]])

\* collection('expenses').doc(id).set(data, { merge: true }) (lines 520-529):
\* the fields of data replace those of the document at that path, which is
\* created when it does not exist
expensesSet(exps, key, id, data) ==
    IF \E i \in 1..Len(exps) : exps[i].key = key /\ exps[i].id = id
    THEN [i \in 1..Len(exps) |->
            IF exps[i].key = key /\ exps[i].id = id
            THEN [exps[i] EXCEPT !.doc = [f \in ExpenseFields |->
                                    IF f \in DOMAIN data THEN data[f] ELSE @[f]]]
            ELSE exps[i]]
    ELSE Append(exps, [key |-> key, id |-> id,
                       doc |-> [f \in ExpenseFields |->
                                   IF f \in DOMAIN data THEN data[f] ELSE None]])

\* lines 417-424: the metadata expenses/submit attaches
ExpenseMetadata(req, memberData, today) ==
    IssuedMeta(req.organizationId, req.memberId, "expense", memberData.name,
               Some(req.category), Some(DateNow(today)))

\* A demo answer that does not say it is one.
DemoAnswerUnmarked(today) ==
    [NoBody EXCEPT !.success = Some(TRUE), !.expenseId = Some(DateNow(today)),
                   !.paymentIntentId = Some("pi_mock_expense_" \o DateNow(today)),
                   !.clientSecret = Some("pi_mock_secret_" \o DateNow(today))]

\* lines 368-375, 381-388, 440-447: the demo answer
DemoAnswer(today) ==
    [NoBody EXCEPT !.success = Some(TRUE), !.expenseId = Some(DateNow(today)),
                   !.paymentIntentId = Some("pi_mock_expense_" \o DateNow(today)),
                   !.clientSecret = Some("pi_mock_secret_" \o DateNow(today)),
                   !.demo = Some(TRUE)]

\* lines 310-457: POST /api/expenses/submit
submitExpense(req, failAt, today) ==
    LET violations == validateExpenseSubmit(req)
        key == <<req.organizationId, req.memberId>>
        e500 == "Failed to submit expense"
    IN  IF violations # <<>>
        THEN Invalid400(violations)
        ELSE IF db /\ ~StoreOk(failAt, "expenses.add")
        THEN Failed500(e500, <<>>, <<"expenses.add">>, World)
        ELSE
        LET w1 == IF db THEN [World EXCEPT !.expenses =
                                  expensesAdd(@, key, ExpenseData(req, today))]
                  ELSE World
            ops == IF db THEN <<"expenses.add", "members.get">> ELSE <<>>
            memberData == IF db /\ membersGet(key) # None THEN membersGet(key)[1]
                          ELSE [name |-> req.submitterName, email |-> "demo@example.com"]
        IN  IF db /\ ~StoreOk(failAt, "members.get")
            THEN Failed500(e500, <<>>, ops, w1)
            ELSE IF ~stripeKey
            THEN Answer(200, DemoAnswer(today), <<>>, ops, w1)
            ELSE
            LET c == resolveCustomer(customers, memberData, req.memberId,
                                     req.organizationId, failAt)
                w2 == [w1 EXCEPT !.customers = c.customers]
            IN  IF ~c.ok
                THEN Answer(200, DemoAnswer(today), c.calls, ops, w2)
                ELSE IF ~ProviderOk(failAt, "paymentIntents.create")
                THEN Answer(200, DemoAnswer(today),
                            Append(c.calls, "paymentIntents.create"), ops, w2)
                ELSE
                LET pi == paymentIntentsCreate(intents, Cents(req.amount), "usd",
                                               c.customer[1].id,
                                               "Expense: " \o req.description,
                                               ExpenseMetadata(req, memberData, today))
                IN  Answer(200,
                           [NoBody EXCEPT !.success = Some(TRUE),
                                          !.expenseId = Some(DateNow(today)),
                                          !.paymentIntentId = Some(pi.id),
                                          !.clientSecret = Some(pi.client_secret)],
                           Append(c.calls, "paymentIntents.create"), ops,
                           [w2 EXCEPT !.intents = Append(@, pi)])

BaseExpenseRequest ==
    [submitterName |-> "Test", amount |-> <<25, 50>>, category |-> "Supplies",
     description |-> "Pizza", memberId |-> "m1", organizationId |-> "o1",
     receiptUrl |-> None]

\* The expenses/submit requests: of a registered member, of an unregistered
\* one with a receipt, and two that break a validation rule.
ExpenseRequests ==
    {BaseExpenseRequest,
     [BaseExpenseRequest EXCEPT !.memberId = "m2", !.submitterName = "Ann",
                                !.receiptUrl = Some("https://r.example/1")],
     [BaseExpenseRequest EXCEPT !.amount = <<0, 0>>],
     [BaseExpenseRequest EXCEPT !.submitterName = "", !.category = ""]}

\* The calls of expenses/submit that can throw.
ExpenseFailures ==
    {"none", "expenses.add", "members.get", "customers.list", "customers.create",
     "paymentIntents.create"}

SubmitExpense(req, failAt) ==
    Serve("expenses/submit", req, failAt, submitExpense(req, failAt, clock))

-----------------------------------------------------------------------------
\* Reimbursement.

\* optional().isURL() (line 71)
isURL(v) == v = None \/ v[1] \in {"https://r.example/1"}

\* lines 66-72: the fields in violation
validateExpenseReimbursement(req) ==
    Violation(isFloat(req.amount, <<0, 1>>), "amount")
    \o Violation(notEmpty(req.memberId), "memberId")
    \o Violation(notEmpty(req.organizationId), "organizationId")
    \o Violation(notEmpty(req.description), "description")
    \o Violation(isURL(req.receiptUrl), "receiptUrl")

\* What stripe.transfers.create returns for the parameters of lines 506-517.
transfersCreate(ts, req, customer, memberData) ==
    [id |-> "tr_" \o ToString(Len(ts) + 1), amount |-> Cents(req.amount),
     currency |-> "usd", destination |-> customer.id,
     description |-> "Reimbursement: " \o req.description,
     metadata |-> [memberId |-> req.memberId, organizationId |-> req.organizationId,
                   memberName |-> memberData.name, expenseType |-> "reimbursement"]]

\* Settlement data that names no transfer.
ReimbursedDataNoTransfer(req, transfer, today) ==
    [status |-> Some("Reimbursed"), reimbursementDate |-> Some(today),
     transferId |-> Some("pending"), receiptUrl |-> Some(OrEmpty(req.receiptUrl))]

\* lines 524-529: the fields process-reimbursement writes
ReimbursedData(req, transfer, today) ==
    [status |-> Some("Reimbursed"), reimbursementDate |-> Some(today),
     transferId |-> Some(transfer.id), receiptUrl |-> Some(OrEmpty(req.receiptUrl))]

\* lines 460-544: POST /api/expenses/process-reimbursement.  db is used
\* unguarded at line 473: without a Record Store the handler throws there.
\* doc(req.body.expenseId) throws at line 522 when the request has no expenseId.
processReimbursement(req, failAt, today) ==
    LET violations == validateExpenseReimbursement(req)
        key == <<req.organizationId, req.memberId>>
        e500 == "Failed to process reimbursement"
    IN  IF violations # <<>>
        THEN Invalid400(violations)
        ELSE IF ~db
        THEN Failed500(e500, <<>>, <<>>, World)
        ELSE IF ~StoreOk(failAt, "members.get")
        THEN Failed500(e500, <<>>, <<"members.get">>, World)
        ELSE IF membersGet(key) = None
        THEN Answer(404, [NoBody EXCEPT !.error = Some("Member not found")],
                    <<>>, <<"members.get">>, World)
        ELSE
        LET memberData == membersGet(key)[1]
            c == resolveCustomer(customers, memberData, req.memberId,
                                 req.organizationId, failAt)
            w1 == [World EXCEPT !.customers = c.customers]
        IN  IF ~c.ok
            THEN Failed500(e500, c.calls, <<"members.get">>, w1)
            ELSE IF ~ProviderOk(failAt, "transfers.create")
            THEN Failed500(e500, Append(c.calls, "transfers.create"),
                           <<"members.get">>, w1)
            ELSE
            LET transfer == transfersCreate(transfers, req, c.customer[1], memberData)
                w2 == [w1 EXCEPT !.transfers = Append(@, transfer)]
                calls == Append(c.calls, "transfers.create")
            IN  IF req.expenseId = None
                THEN Failed500(e500, calls, <<"members.get">>, w2)
                ELSE IF ~StoreOk(failAt, "expenses.set")
                THEN Failed500(e500, calls, <<"members.get", "expenses.set">>, w2)
                ELSE Answer(200,
                            [NoBody EXCEPT !.success = Some(TRUE),
                                           !.transferId = Some(transfer.id)],
                            calls, <<"members.get", "expenses.set">>,
                            [w2 EXCEPT !.expenses =
                                 expensesSet(@, key, req.expenseId[1],
                                             ReimbursedData(req, transfer, today))])

BaseReimbursement ==
    [amount |-> <<25, 50>>, memberId |-> "m1", organizationId |-> "o1",
     description |-> "Pizza", receiptUrl |-> None, expenseId |-> Some("exp_1")]

\* The process-reimbursement requests: for the first stored expense, for the
\* id expenses/submit answered, without an id, for an unregistered member,
\* and two that break a validation rule.
ReimbursementRequests ==
    {BaseReimbursement,
     [BaseReimbursement EXCEPT !.expenseId = Some(DateNow(1)),
                               !.receiptUrl = Some("https://r.example/1")],
     [BaseReimbursement EXCEPT !.expenseId = None],
     [BaseReimbursement EXCEPT !.memberId = "m2"],
     [BaseReimbursement EXCEPT !.amount = <<0, 0>>],
     [BaseReimbursement EXCEPT !.receiptUrl = Some("receipt.jpg"), !.description = ""]}

\* The calls of process-reimbursement that can throw.
ReimbursementFailures ==
    {"none", "members.get", "customers.list", "customers.create", "transfers.create",
     "expenses.set"}

ProcessReimbursement(req, failAt) ==
    Serve("process-reimbursement", req, failAt, processReimbursement(req, failAt, clock))

-----------------------------------------------------------------------------
\* History query.

RECURSIVE Descending(_)
\* The members of a set of positions, greatest first.
Descending(set) ==
    IF set = {} THEN <<>>
    ELSE LET m == Last(set) IN <<m>> \o Descending(set \ {m})

\* lines 551-565: paymentsRef.orderBy('createdAt', 'desc').get() and the list
\* built from the snapshot.  createdAt is the server timestamp of the add, so
\* the order is the reverse of the order of creation.
paymentsRefGet(recs, key) ==
    LET mine == Descending({i \in 1..Len(recs) : recs[i].key = key})
    IN  [n \in 1..Len(mine) |-> recs[mine[n]].doc]

\* lines 547-573: GET /api/payments/history/:organizationId/:memberId.  db is
\* used unguarded at line 551: without a Record Store the handler throws there.
paymentsHistory(req, failAt) ==
    LET e500 == "Failed to fetch payment history"
    IN  IF ~db
        THEN Failed500(e500, <<>>, <<>>, World)
        ELSE IF ~StoreOk(failAt, "payment_intents.get")
        THEN Failed500(e500, <<>>, <<"payment_intents.get">>, World)
        ELSE Answer(200,
                    [NoBody EXCEPT !.payments =
                        Some(paymentsRefGet(piRecords, <<req.organizationId, req.memberId>>))],
                    <<>>, <<"payment_intents.get">>, World)

\* The path parameters of a history request.
HistoryRequests == {[organizationId |-> k[1], memberId |-> k[2]] : k \in MemberKeys}

HistoryFailures == {"none", "payment_intents.get"}

PaymentsHistory(req, failAt) ==
    Serve("payments/history", req, failAt, paymentsHistory(req, failAt))

-----------------------------------------------------------------------------
\* Events about issued intents.

\* lines 197-205 for a verified payment_intent.succeeded or
\* payment_intent.payment_failed event whose data.object is the i-th intent this
\* backend issued.
DeliverIssued(i, t, fx) ==
    LET pi == intents[i]
        e == Event(t, pi.id, None, 0, <<>>)
        r == IF t = "payment_intent.succeeded"
             THEN handlePaymentSuccess(Store, pi, clock, fx)
             ELSE handlePaymentFailure(Store, pi, None, clock, fx)
    IN  /\ served < MaxCalls
        /\ served' = served + 1
        /\ delivered' = delivered + 1
        /\ dues' = r.dues
        /\ donations' = r.donations
        /\ last' = [contentType |-> "application/json",
                    signature |-> Some([key |-> "whsec", over |-> Bytes(e)]),
                    event |-> e, fx |-> fx, date |-> clock, payload |-> "buffer",
                    verified |-> TRUE, handler |-> r.handler, calls |-> r.calls,
                    writes |-> r.writes, caught |-> r.caught,
                    status |-> IF r.threw THEN 500 ELSE 200,
                    body |-> IF r.threw THEN "Webhook processing failed" ELSE "received",
                    again |-> Again(e)]
        /\ UNCHANGED <<db, clock, stripeKey, customers, intents, transfers,
                       piRecords, expenses, api, flight, page>>

IssuedEffects == {Fx(TRUE, TRUE, TRUE), Fx(FALSE, TRUE, TRUE)}

IssuedTypes == {"payment_intent.succeeded", "payment_intent.payment_failed"}

\* Any configuration of the provider key.
InitIssuance == InitStore /\ stripeKey \in BOOLEAN

\* Intent issuance and the events that follow it.
NextIssuance ==
    \/ \E req \in IntentRequests, failAt \in IntentFailures :
          CreatePaymentIntent(req, failAt)
    \/ \E req \in HistoryRequests, failAt \in HistoryFailures :
          PaymentsHistory(req, failAt)
    \/ \E req \in ExpenseRequests, failAt \in ExpenseFailures :
          SubmitExpense(req, failAt)
    \/ \E i \in 1..Len(intents), t \in IssuedTypes, fx \in IssuedEffects :
          DeliverIssued(i, t, fx)
    \/ Tick

SpecIssuance == InitIssuance /\ [][NextIssuance]_vars

\* The life of an expense: submission, reimbursement, and the events about the
\* intent the submission issued.
NextExpenses ==
    \/ \E req \in ExpenseRequests, failAt \in ExpenseFailures :
          SubmitExpense(req, failAt)
    \/ \E req \in ReimbursementRequests, failAt \in ReimbursementFailures :
          ProcessReimbursement(req, failAt)
    \/ \E i \in 1..Len(intents), t \in IssuedTypes, fx \in IssuedEffects :
          DeliverIssued(i, t, fx)
    \/ Tick

SpecExpenses == InitIssuance /\ [][NextExpenses]_vars


-----------------------------------------------------------------------------
\* Properties of intent issuance (SpecIssuance).

\* An API request was handled in this step.
Served == served' # served /\ delivered' = delivered

\* The request handled created a payment intent at the provider.
Issued == Served /\ Len(intents') = Len(intents) + 1

NewIntent == intents'[Len(intents')]

\* C11: every payment intent this backend creates at the provider, by
\* create-payment-intent and by expenses/submit, carries metadata with memberId,
\* organizationId, paymentType and memberName, and its memberId and
\* organizationId are those of the request that caused it.
C11_IssuedMetadata ==
    [][/\ Served => Len(intents') \in {Len(intents), Len(intents) + 1}
       /\ Issued =>
            /\ api'.endpoint \in {"create-payment-intent", "expenses/submit"}
            /\ NewIntent.metadata.memberId = Some(api'.req.memberId)
            /\ NewIntent.metadata.organizationId = Some(api'.req.organizationId)
            /\ NewIntent.metadata.paymentType =
                 Some(IF api'.endpoint = "expenses/submit" THEN "expense" ELSE "dues")
            /\ NewIntent.metadata.memberName # None
            /\ \A i \in 1..Len(intents) : intents'[i] = intents[i]]_vars

\* Both endpoints have issued an intent.
C11_Witness ==
    /\ \E i \in 1..Len(intents) : intents[i].metadata.paymentType = Some("dues")
    /\ \E i \in 1..Len(intents) : intents[i].metadata.paymentType = Some("expense")

\* The step handles a verified intent-succeeded event about the intent that the
\* create-payment-intent call handled last has issued.
SucceededLastIssued ==
    /\ Handled
    /\ last'.event.type = "payment_intent.succeeded"
    /\ api.endpoint = "create-payment-intent"
    /\ api.body.paymentIntentId = Some(last'.event.object)

\* The Dues record of the member of the request handled last is Paid with the
\* requested amount in major units, and no other Dues record changed.
PaidAsRequested ==
    LET k == <<api.req.organizationId, api.req.memberId>>
    IN  /\ dues'[k].status = Some("Paid")
        /\ dues'[k].amount = Some(Div100(api.req.amount[1]))
        /\ \A j \in MemberKeys \ {k} : dues'[j] = dues[j]

IntentCall(a) == a.endpoint = "create-payment-intent"

\* The PaymentIntent records that mirror the intent of the given id.
RecordsOf(recs, id) == {i \in 1..Len(recs) : recs[i].doc.paymentIntentId = id}

\* The intent of the given id, as the provider created it.
IntentOf(is, id) == CHOOSE pi \in {is[i] : i \in 1..Len(is)} : pi.id = id

\* The call handled last has persisted exactly one PaymentIntent record for the
\* intent it answered, under the member of the request, with the requested
\* amount and the status the provider returned.
PersistedAsIssued ==
    LET id == api.body.paymentIntentId[1]
        mirrors == RecordsOf(piRecords, id)
    IN  /\ Cardinality(mirrors) = 1
        /\ \A i \in mirrors :
              /\ piRecords[i].key = <<api.req.organizationId, api.req.memberId>>
              /\ piRecords[i].doc.amount = api.req.amount[1]
              /\ piRecords[i].doc.status = IntentOf(intents, id).status

Returned(a) == IntentCall(a) /\ a.body.clientSecret # None /\ a.body.paymentIntentId # None

\* C13: every create-payment-intent call that returns a clientSecret and a
\* paymentIntentId has persisted exactly one PaymentIntent record for that intent
\* id, with the requested amount and the status the provider returned.
C13_ReturnedIsPersisted == Returned(api) => PersistedAsIssued

\* C13 as the code has it: the same, when the Record Store is configured.
C13_ReturnedIsPersistedWhenStore == (db /\ Returned(api)) => PersistedAsIssued

\* A call has returned an intent with a Record Store configured.
C13_Witness == db /\ Returned(api) /\ api.status = 200 /\ PersistedAsIssued

\* What the contract of create-payment-intent refuses.
BadIntentRequest(req) ==
    \/ req.amount[2] # 0
    \/ req.amount[1] < 50
    \/ req.currency # "usd"
    \/ req.memberId = ""
    \/ req.organizationId = ""
    \/ req.description = ""

\* The provider's and the Record Store's contents are as they were.
NothingCreated ==
    UNCHANGED <<customers, intents, transfers, piRecords, expenses, dues, donations>>

\* C14: a create-payment-intent request whose amount is not an integer of at
\* least 50, whose currency is not 'usd', or whose memberId, organizationId or
\* description is empty is answered 400 with the list of the fields in
\* violation, and causes no member lookup, no provider call and no store write.
C14_InvalidRejected ==
    [][(Served /\ IntentCall(api') /\ BadIntentRequest(api'.req)) =>
          /\ api'.status = 400
          /\ api'.body.error = Some("Validation failed")
          /\ api'.body.details # <<>>
          /\ api'.provider = <<>>
          /\ api'.store = <<>>
          /\ NothingCreated]_vars

\* A request in another currency has been refused, with that field listed.
C14_Witness ==
    /\ IntentCall(api)
    /\ api.req.currency = "eur"
    /\ api.status = 400
    /\ api.body.details = <<"currency">>

\* A well-formed create-payment-intent request for a member without a document.
ForUnknownMember(a) ==
    /\ IntentCall(a)
    /\ ~BadIntentRequest(a.req)
    /\ Members[<<a.req.organizationId, a.req.memberId>>] = None

NoProviderCall(a) == a.provider = <<>>

NoStoreWrite(a) == \A i \in 1..Len(a.store) : a.store[i] = "members.get"

\* C15: a valid create-payment-intent request for a member that does not exist
\* in the Record Store is answered 404 and creates no provider customer, no
\* provider payment intent and no PaymentIntent record.
C15_UnknownMemberRejected ==
    [][(Served /\ ForUnknownMember(api')) =>
          /\ api'.status = 404
          /\ NoProviderCall(api')
          /\ NoStoreWrite(api')
          /\ NothingCreated]_vars

\* C15 as the code has it: the same, when the Record Store is configured and
\* answers the lookup; when the lookup fails the answer is 500 and nothing is
\* created either.
C15_UnknownMemberRejectedWhenStore ==
    [][(Served /\ ForUnknownMember(api') /\ db) =>
          /\ api'.status = IF api'.failAt = "members.get" THEN 500 ELSE 404
          /\ NoProviderCall(api')
          /\ NoStoreWrite(api')
          /\ NothingCreated]_vars

\* The lookup of an unknown member has been answered 404.
C15_Witness ==
    /\ db
    /\ ForUnknownMember(api)
    /\ api.store = <<"members.get">>
    /\ api.status = 404
    /\ api.body.error = Some("Member not found")

\* The Record Store refused the PaymentIntent record of the call handled last
\* after the provider had created the intent.
WriteFailedAfterIssue(a) ==
    /\ IntentCall(a)
    /\ a.failAt = "payment_intents.add"
    /\ Len(a.store) > 0
    /\ a.store[Len(a.store)] = "payment_intents.add"

Count(seq, c) == Cardinality({i \in 1..Len(seq) : seq[i] = c})

\* Every PaymentIntent record mirrors an intent the provider created.
RecordsAreIssued ==
    \A i \in 1..Len(piRecords) :
        \E j \in 1..Len(intents) : intents[j].id = piRecords[i].doc.paymentIntentId

\* C16: when the PaymentIntent record write fails after the provider has
\* created the intent, the call is answered 500, the intent stays at the
\* provider as created (not cancelled, not created again) and has no record;
\* and no PaymentIntent record exists for an intent the provider did not create.
C16_NonAtomicIssuance ==
    [][/\ (Served /\ WriteFailedAfterIssue(api')) =>
            /\ api'.status = 500
            /\ Issued
            /\ Count(api'.provider, "paymentIntents.create") = 1
            /\ api'.provider[Len(api'.provider)] = "paymentIntents.create"
            /\ piRecords' = piRecords
            /\ RecordsOf(piRecords', NewIntent.id) = {}
       /\ RecordsAreIssued'
       /\ \A i \in 1..Len(intents) : intents'[i] = intents[i]]_vars

\* An intent is left at the provider without a record after a failed write.
C16_Witness ==
    /\ WriteFailedAfterIssue(api)
    /\ api.status = 500
    /\ Len(intents) > 0
    /\ RecordsOf(piRecords, intents[Len(intents)].id) = {}


-----------------------------------------------------------------------------
\* Properties of expenses and reimbursement (SpecExpenses).

ReimbursementCall(a) == a.endpoint = "process-reimbursement"

\* What the validators of process-reimbursement refuse.
BadReimbursement(req) ==
    \/ 100 * req.amount[1] + req.amount[2] < 1
    \/ req.memberId = ""
    \/ req.organizationId = ""
    \/ req.description = ""
    \/ (req.receiptUrl # None /\ req.receiptUrl # Some("https://r.example/1"))

\* A well-formed process-reimbursement request for a member without a document.
ReimbursementForUnknownMember(a) ==
    /\ ReimbursementCall(a)
    /\ ~BadReimbursement(a.req)
    /\ Members[<<a.req.organizationId, a.req.memberId>>] = None

\* C17: a process-reimbursement request for a member that does not exist is
\* answered 404 and makes no provider call at all and no Expense record write.
C17_UnknownMemberNotReimbursed ==
    [][(Served /\ ReimbursementForUnknownMember(api')) =>
          /\ api'.status = 404
          /\ NoProviderCall(api')
          /\ NoStoreWrite(api')
          /\ NothingCreated]_vars

\* The transfers the provider created for the member of the given key.
TransfersFor(key) ==
    {transfers[i].id : i \in {j \in 1..Len(transfers) :
        /\ transfers[j].metadata.organizationId = key[1]
        /\ transfers[j].metadata.memberId = key[2]}}

Reimbursed(e) == e.doc.status = Some("Reimbursed")

\* C18: in every reachable state, every Expense record with status Reimbursed
\* carries the transferId of a transfer the provider created for that member,
\* and a reimbursementDate.
C18_ReimbursedHasTransfer ==
    \A i \in 1..Len(expenses) :
        Reimbursed(expenses[i]) =>
            /\ expenses[i].doc.transferId # None
            /\ expenses[i].doc.transferId[1] \in TransfersFor(expenses[i].key)
            /\ expenses[i].doc.reimbursementDate # None

\* A submitted expense has been reimbursed.
C18_Witness ==
    \E i \in 1..Len(expenses) :
        /\ Reimbursed(expenses[i])
        /\ expenses[i].doc.submitterName # None
        /\ expenses[i].doc.transferId = Some("tr_1")

LastOf(seq) == IF seq = <<>> THEN "none" ELSE seq[Len(seq)]

\* The provider refused the transfer of the call handled last.
TransferFailed(a) ==
    /\ ReimbursementCall(a)
    /\ LastOf(a.provider) = "transfers.create"
    /\ a.failAt = "transfers.create"

\* The provider made the transfer of the call handled last and the Expense
\* record write that followed failed.
WriteFailedAfterTransfer(a) ==
    /\ ReimbursementCall(a)
    /\ LastOf(a.provider) = "transfers.create"
    /\ a.failAt # "transfers.create"
    /\ \/ a.failAt = "expenses.set" /\ LastOf(a.store) = "expenses.set"
       \/ a.req.expenseId = None

\* C19: when the provider transfer fails in process-reimbursement the call is
\* answered 500 and the Expense records are unchanged; when the transfer succeeds
\* and the Expense record write fails, the call is answered 500 and the transfer
\* stays: a completed transfer whose expense is not marked Reimbursed.
C19_NonAtomicReimbursement ==
    [][/\ (Served /\ TransferFailed(api')) =>
            /\ api'.status = 500
            /\ UNCHANGED <<transfers, expenses>>
       /\ (Served /\ WriteFailedAfterTransfer(api')) =>
            /\ api'.status = 500
            /\ Len(transfers') = Len(transfers) + 1
            /\ \A i \in 1..Len(transfers) : transfers'[i] = transfers[i]
            /\ Count(api'.provider, "transfers.create") = 1
            /\ UNCHANGED expenses]_vars

\* A transfer was made for a stored expense that is still Pending.
C19_Witness ==
    /\ WriteFailedAfterTransfer(api)
    /\ api.failAt = "expenses.set"
    /\ api.req.expenseId # None
    /\ api.status = 500
    /\ Len(transfers) = 1
    /\ \E i \in 1..Len(expenses) :
          /\ expenses[i].id = api.req.expenseId[1]
          /\ expenses[i].doc.status = Some("Pending")

\* C20: the status of an Expense record is Pending or Reimbursed, it is Pending
\* when expenses/submit creates the record, and a record that is Reimbursed
\* stays Reimbursed whatever request or webhook event is handled next.
C20_ExpenseStatus ==
    [][/\ \A i \in 1..Len(expenses') :
             expenses'[i].doc.status \in {Some("Pending"), Some("Reimbursed")}
       /\ (Served /\ api'.endpoint = "expenses/submit") =>
             /\ Len(expenses') \in {Len(expenses), Len(expenses) + 1}
             /\ \A i \in 1..Len(expenses) : expenses'[i] = expenses[i]
             /\ Len(expenses') > Len(expenses) =>
                   expenses'[Len(expenses')].doc.status = Some("Pending")
       /\ \A i \in 1..Len(expenses) :
             Reimbursed(expenses[i]) =>
                /\ Len(expenses') >= i
                /\ expenses'[i].key = expenses[i].key
                /\ expenses'[i].id = expenses[i].id
                /\ Reimbursed(expenses'[i])]_vars

\* An expense that was Reimbursed went through another reimbursement request
\* and is Reimbursed still.
C20_Witness ==
    \E i \in 1..Len(expenses) :
        /\ Reimbursed(expenses[i])
        /\ expenses[i].doc.transferId = Some("tr_2")
        /\ ReimbursementCall(api)
        /\ api.status = 200


-----------------------------------------------------------------------------
\* Properties of the history query (SpecIssuance).

HistoryCall(a) == a.endpoint = "payments/history"

\* The PaymentIntent records stored for the member of the given key, the one
\* created last first.
StoredFor(recs, key) ==
    LET mine == {i \in 1..Len(recs) : recs[i].key = key}
    IN  [n \in 1..Cardinality(mine) |->
            recs[CHOOSE i \in mine : Cardinality({j \in mine : j > i}) = n - 1].doc]

\* C21: History Query for (organizationId, memberId) returns exactly the
\* PaymentIntent records stored for that member, ordered by creation time
\* descending, and changes no record; for a member with no PaymentIntent
\* records it returns 200 with an empty payments list.
C21_HistoryExact ==
    [][(Served /\ HistoryCall(api')) =>
          /\ api'.status = 200
          /\ api'.body.payments =
                Some(StoredFor(piRecords, <<api'.req.organizationId, api'.req.memberId>>))
          /\ NothingCreated]_vars


-----------------------------------------------------------------------------
\* Further properties of the reconciliation of verified events (SpecVerified).

\* C22: a Donation record is created only while a verified intent-succeeded
\* event whose metadata paymentType is 'donation' is processed, and only after
\* that event's Dues upsert has succeeded; no operation modifies or deletes an
\* existing Donation record.
C22_DonationsAppendOnly ==
    [][\A k \in MemberKeys :
          /\ Len(donations'[k]) >= Len(donations[k])
          /\ \A i \in 1..Len(donations[k]) : donations'[k][i] = donations[k][i]
          /\ Len(donations'[k]) > Len(donations[k]) =>
                /\ Handled
                /\ last'.verified
                /\ last'.event.type = "payment_intent.succeeded"
                /\ LastMeta'.paymentType = Some("donation")
                /\ "dues" \in last'.writes
                /\ k = duesRef(LastMeta')
                /\ dues'[k].paymentIntentId = Some(last'.event.object)
                /\ Len(donations'[k]) = Len(donations[k]) + 1
                /\ donations'[k][Len(donations'[k])].paymentIntentId = last'.event.object]_vars

\* A donation was recorded and the event handled after it left it in place.
C22_Witness ==
    \E k \in MemberKeys :
        /\ Len(donations[k]) = 1
        /\ delivered = 2
        /\ last.event.type = "charge.refunded"
        /\ "dues" \in last.writes


-----------------------------------------------------------------------------
\* Further properties of expenses (SpecExpenses).

SubmitCall(a) == a.endpoint = "expenses/submit"

\* What the validators of expenses/submit refuse.
BadExpenseRequest(req) ==
    \/ req.submitterName = ""
    \/ 100 * req.amount[1] + req.amount[2] < 1
    \/ req.category = ""
    \/ req.description = ""
    \/ req.memberId = ""
    \/ req.organizationId = ""

\* A valid expenses/submit request was handled without a provider key.
SubmittedWithoutKey == Served /\ SubmitCall(api') /\ ~BadExpenseRequest(api'.req) /\ ~stripeKey

\* The answer is the demo response: success, marked demo, with ids that name
\* no provider object.
DemoResponse(a) ==
    /\ a.status = 200
    /\ a.body.success = Some(TRUE)
    /\ a.body.demo = Some(TRUE)
    /\ a.body.expenseId # None
    /\ a.body.clientSecret # None
    /\ a.body.paymentIntentId # None
    /\ \A i \in 1..Len(intents) : Some(intents[i].id) # a.body.paymentIntentId

\* The request handled stored one new Pending expense with the request's data
\* under the request's member.
PendingStored ==
    /\ Len(expenses') = Len(expenses) + 1
    /\ \A i \in 1..Len(expenses) : expenses'[i] = expenses[i]
    /\ LET e == expenses'[Len(expenses')]
       IN  /\ e.key = <<api'.req.organizationId, api'.req.memberId>>
           /\ e.doc.status = Some("Pending")
           /\ e.doc.amount = Some(api'.req.amount)
           /\ e.doc.submitterName = Some(api'.req.submitterName)

\* C23: when the provider secret key is unset or is the placeholder, a valid
\* expenses/submit request is answered success with synthetic ids (the demo
\* response) and makes no provider call, while the Pending Expense record is
\* still written when the Record Store is configured.
C23_DemoSubmit ==
    [][SubmittedWithoutKey =>
          /\ DemoResponse(api')
          /\ NoProviderCall(api')
          /\ UNCHANGED <<customers, intents, transfers>>
          /\ IF db THEN PendingStored ELSE UNCHANGED expenses]_vars

\* The Record Store, when there is one, took the expense and answered the
\* member lookup.
StoreAnswered(a) == a.failAt \notin {"expenses.add", "members.get"} \/ ~db

\* C23 as the code has it: the same, when the Record Store, if configured,
\* accepts the expense and answers the member lookup; otherwise the answer is
\* 500, still without a provider call.
C23_DemoSubmitWhenStored ==
    [][SubmittedWithoutKey =>
          /\ NoProviderCall(api')
          /\ UNCHANGED <<customers, intents, transfers>>
          /\ IF StoreAnswered(api')
             THEN /\ DemoResponse(api')
                  /\ IF db THEN PendingStored ELSE UNCHANGED expenses
             ELSE /\ api'.status = 500
                  /\ IF api'.failAt = "members.get" THEN PendingStored
                     ELSE UNCHANGED expenses]_vars

\* A demo response was given and the Pending expense is in the Record Store.
C23_Witness ==
    /\ ~stripeKey
    /\ db
    /\ SubmitCall(api)
    /\ DemoResponse(api)
    /\ Len(expenses) > 0
    /\ expenses[Len(expenses)].doc.status = Some("Pending")


-----------------------------------------------------------------------------
\* Interleaved issuance.  A handler runs without interruption from one await
\* to the next; between two awaits of one request the other request may run.
\* Each action below is the completion of the call a handler waits for,
\* followed by the handler's code up to its next await.

Wait(s, pc) == flight[s].pc = pc

Others == <<db, dues, donations, clock, delivered, last, stripeKey, transfers, expenses,
            served, api, page>>

\* lines 86-107: the request arrives; validation, then the first await
Arrive(s, req) ==
    /\ Wait(s, "idle")
    /\ flight' = [flight EXCEPT ![s] =
          IF validatePaymentIntent(req) # <<>>
          THEN [Idle EXCEPT !.req = Some(req), !.pc = "done", !.status = 400]
          ELSE IF db
          THEN [Idle EXCEPT !.req = Some(req), !.pc = "members.get"]
          ELSE [Idle EXCEPT !.req = Some(req), !.pc = "customers.list",
                            !.memberData = Some(DemoMember)]]
    /\ UNCHANGED <<customers, intents, piRecords>>
    /\ UNCHANGED Others

\* lines 107-123: memberRef.get() answers
MemberLooked(s) ==
    /\ Wait(s, "members.get")
    /\ LET req == flight[s].req[1]
           m == membersGet(<<req.organizationId, req.memberId>>)
       IN  flight' = [flight EXCEPT ![s] =
              IF m = None THEN [@ EXCEPT !.pc = "done", !.status = 404]
              ELSE [@ EXCEPT !.pc = "customers.list", !.memberData = m]]
    /\ UNCHANGED <<customers, intents, piRecords>>
    /\ UNCHANGED Others

\* lines 120-128: stripe.customers.list answers
CustomersListed(s) ==
    /\ Wait(s, "customers.list")
    /\ LET existing == customersList(customers, flight[s].memberData[1].email)
       IN  flight' = [flight EXCEPT ![s] =
              IF existing # None
              THEN [@ EXCEPT !.pc = "paymentIntents.create", !.customer = existing]
              ELSE [@ EXCEPT !.pc = "customers.create"]]
    /\ UNCHANGED <<customers, intents, piRecords>>
    /\ UNCHANGED Others

\* lines 128-139: stripe.customers.create answers
CustomerCreated(s) ==
    /\ Wait(s, "customers.create")
    /\ LET req == flight[s].req[1]
           c == customersCreate(customers, flight[s].memberData[1], req.memberId,
                                req.organizationId)
       IN  /\ customers' = Append(customers, c)
           /\ flight' = [flight EXCEPT ![s] =
                 [@ EXCEPT !.pc = "paymentIntents.create", !.customer = Some(c)]]
    /\ UNCHANGED <<intents, piRecords>>
    /\ UNCHANGED Others

\* lines 139-157 (and 171-174 without a Record Store): stripe.paymentIntents.create
\* answers
IntentCreated(s) ==
    /\ Wait(s, "paymentIntents.create")
    /\ LET req == flight[s].req[1]
           pi == paymentIntentsCreate(intents, req.amount[1], req.currency,
                                      flight[s].customer[1].id, req.description,
                                      DuesMetadata(req, flight[s].memberData[1]))
       IN  /\ intents' = Append(intents, pi)
           /\ flight' = [flight EXCEPT ![s] =
                 IF db THEN [@ EXCEPT !.pc = "payment_intents.add", !.pi = Some(pi)]
                 ELSE [@ EXCEPT !.pc = "done", !.pi = Some(pi), !.status = 200]]
    /\ UNCHANGED <<customers, piRecords>>
    /\ UNCHANGED Others

\* lines 157-174: the add answers and the handler responds
RecordAdded(s) ==
    /\ Wait(s, "payment_intents.add")
    /\ LET req == flight[s].req[1]
           rec == [key |-> <<req.organizationId, req.memberId>>,
                   doc |-> PaymentIntentRecord(flight[s].pi[1], req,
                                               flight[s].memberData[1], clock)]
       IN  piRecords' = Append(piRecords, rec)
    /\ flight' = [flight EXCEPT ![s] = [@ EXCEPT !.pc = "done", !.status = 200]]
    /\ UNCHANGED <<customers, intents>>
    /\ UNCHANGED Others

\* The provider has a key; the Record Store is configured or not.
InitInterleaved == InitStore /\ stripeKey = TRUE

NextInterleaved ==
    \/ \E s \in Slots, req \in IntentRequests : Arrive(s, req)
    \/ \E s \in Slots : MemberLooked(s)
    \/ \E s \in Slots : CustomersListed(s)
    \/ \E s \in Slots : CustomerCreated(s)
    \/ \E s \in Slots : IntentCreated(s)
    \/ \E s \in Slots : RecordAdded(s)

SpecInterleaved == InitInterleaved /\ [][NextInterleaved]_vars

-----------------------------------------------------------------------------
\* Properties of interleaved issuance (SpecInterleaved).

Completed(s) == flight[s].pc = "done" /\ flight[s].status = 200

\* The customers that carry the given contact address.
CustomersOf(email) == {i \in 1..Len(customers) : customers[i].email = email}

\* The request of slot s has its own intent, as requested, bound to a customer
\* that carries the member's contact address, and its own record.
OwnIntent(s) ==
    LET req == flight[s].req[1]
        id == flight[s].pi[1].id
        made == {i \in 1..Len(intents) : intents[i].id = id}
    IN  /\ Cardinality(made) = 1
        /\ \A i \in made :
              /\ intents[i].amount = req.amount[1]
              /\ intents[i].metadata.memberId = Some(req.memberId)
              /\ intents[i].metadata.organizationId = Some(req.organizationId)
              /\ \E c \in CustomersOf(flight[s].memberData[1].email) :
                    customers[c].id = intents[i].customer
        /\ db => /\ Cardinality(RecordsOf(piRecords, id)) = 1
                 /\ \A r \in RecordsOf(piRecords, id) :
                       /\ piRecords[r].key = <<req.organizationId, req.memberId>>
                       /\ piRecords[r].doc.amount = req.amount[1]
        /\ \A t \in Slots \ {s} : flight[t].pi # None => flight[t].pi[1].id # id

\* A step neither removes nor rewrites what the provider and the store hold.
Extends(old, new) == Len(new) >= Len(old) /\ \A i \in 1..Len(old) : new[i] = old[i]

\* C24: two create-payment-intent requests for the same member that interleave
\* while the member has no provider customer can each create one (duplicate
\* customers); nothing else comes of the interleaving: each request completes
\* with its own payment intent bound to a customer carrying the member's
\* contact address, and no Record Store record is lost or overwritten.
C24_BenignCustomerRace ==
    [][/\ \A s \in Slots : Completed(s)' => OwnIntent(s)'
       /\ Extends(customers, customers')
       /\ Extends(intents, intents')
       /\ Extends(piRecords, piRecords')
       /\ Len(intents') = Cardinality({s \in Slots : flight'[s].pi # None})
       /\ db => Len(piRecords') = Cardinality({s \in Slots : Completed(s)'})
       /\ Len(customers') <= Cardinality(Slots)]_vars

\* Both requests, for the same member, have completed, each with a customer of
\* its own: the member has two provider customers.
C24_Witness ==
    /\ \A s \in Slots : Completed(s)
    /\ flight["first"].memberData = flight["second"].memberData
    /\ flight["first"].customer # flight["second"].customer
    /\ Cardinality(CustomersOf(flight["first"].memberData[1].email)) = 2
    /\ db


-----------------------------------------------------------------------------
\* Reconciliation over a Record Store that holds the records of earlier
\* issuance requests.

\* The PaymentIntent records create-payment-intent left for the intents pi_1 and
\* pi_3 (lines 157-168), and the expenses the same two members submitted
\* (lines 345-347).
IssuedBefore ==
    <<[key |-> <<"o1", "m1">>,
       doc |-> PaymentIntentRecord([id |-> "pi_1", status |-> "requires_payment_method"],
                                   BaseIntentRequest, Members[<<"o1", "m1">>][1], 1)],
      [key |-> <<"o2", "m2">>,
       doc |-> PaymentIntentRecord([id |-> "pi_3", status |-> "requires_payment_method"],
                                   [BaseIntentRequest EXCEPT !.amount = <<5000, 0>>,
                                                             !.organizationId = "o2",
                                                             !.memberId = "m2"],
                                   Members[<<"o2", "m2">>][1], 1)]>>

SubmittedBefore ==
    expensesAdd(expensesAdd(<<>>, <<"o1", "m1">>, ExpenseData(BaseExpenseRequest, 1)),
                <<"o2", "m2">>,
                ExpenseData([BaseExpenseRequest EXCEPT !.organizationId = "o2",
                                                       !.memberId = "m2",
                                                       !.submitterName = "Bob"], 1))

\* A Record Store has the records; without one there are none.
InitReconcile ==
    /\ InitServer
    /\ stripeKey = TRUE
    /\ piRecords = IF db THEN IssuedBefore ELSE <<>>
    /\ expenses = IF db THEN SubmittedBefore ELSE <<>>

SpecReconcile == InitReconcile /\ [][NextVerified]_vars

\* The organization and member that metadata names.
Named(meta) == <<meta.organizationId[1], meta.memberId[1]>>

\* C25: processing a webhook event whose (re-fetched, for refunds) intent
\* metadata names organization o and member m writes only records under o / m:
\* the Dues, Donation, Expense and PaymentIntent records of every other member
\* are unchanged, and so are m's own PaymentIntent and Expense records.
C25_WritesOnlyUnderMember ==
    [][(Handled /\ last'.verified /\ PathOk(LastMeta')) =>
          /\ \A k \in MemberKeys \ {Named(LastMeta')} :
                dues'[k] = dues[k] /\ donations'[k] = donations[k]
          /\ UNCHANGED <<piRecords, expenses>>]_vars

\* An event about the member of o2 was written while o1's member has a Dues
\* record and both have PaymentIntent and Expense records.
C25_Witness ==
    /\ delivered = 2
    /\ PathOk(LastMeta)
    /\ Named(LastMeta) = <<"o2", "m2">>
    /\ "dues" \in last.writes
    /\ dues[<<"o1", "m1">>].status = Some("Paid")
    /\ Len(piRecords) = 2
    /\ Len(expenses) = 2


-----------------------------------------------------------------------------
\* The front end's request and the path of an amount through the system.

\* frontend-integration.js lines 24-38: the body createPaymentIntent posts for
\* a major-unit amount
frontendCreatePaymentIntent(amount, memberId, organizationId, description) ==
    [amount |-> <<Cents(amount), 0>>, currency |-> "usd", memberId |-> memberId,
     organizationId |-> organizationId, description |-> description]

\* Major-unit amounts with at most two decimals: 150.00, 12.34, 0.50, and 0.49,
\* which is below the minimum charge.
FrontendAmounts == {<<150, 0>>, <<12, 34>>, <<0, 50>>, <<0, 49>>}

\* The bodies the front end posts for these amounts and two members.
FrontendRequests ==
    {frontendCreatePaymentIntent(amount, key[2], key[1], "Spring dues") :
        amount \in FrontendAmounts, key \in {<<"o1", "m1">>, <<"o2", "m2">>}}

PayDues(req) == CreatePaymentIntent(req, "none")

\* The front end pays dues, members submit expenses and are reimbursed, and the
\* provider reports the issued intents.
NextUnits ==
    \/ \E req \in FrontendRequests : PayDues(req)
    \/ \E req \in ExpenseRequests : SubmitExpense(req, "none")
    \/ \E req \in ReimbursementRequests : ProcessReimbursement(req, "none")
    \/ \E i \in 1..Len(intents), t \in IssuedTypes, fx \in IssuedEffects :
          DeliverIssued(i, t, fx)

SpecUnits == InitIssuance /\ [][NextUnits]_vars

\* C26: the unit conversion is consistent across the whole path: for every
\* major-unit amount a with at most two decimals that the front end sends as
\* round(a x 100) minor units, the Dues amount written when the matching
\* intent-succeeded event is reconciled equals a; and process-reimbursement and
\* expenses/submit send the provider round(amount x 100) minor units.
C26_UnitsRoundTrip ==
    [][/\ (SucceededLastIssued /\ "dues" \in last'.writes) =>
             \A a \in FrontendAmounts :
                api.req.amount = <<MinorUnits(a), 0>> =>
                   dues'[<<api.req.organizationId, api.req.memberId>>].amount = Some(a)
       /\ (Issued /\ IntentCall(api')) => NewIntent.amount = api'.req.amount[1]
       /\ (Issued /\ SubmitCall(api')) => NewIntent.amount = MinorUnits(api'.req.amount)
       /\ (Served /\ ReimbursementCall(api') /\ Len(transfers') > Len(transfers)) =>
             transfers'[Len(transfers')].amount = MinorUnits(api'.req.amount)]_vars

\* The front end asked for 12.34, the intent of 1234 minor units was reported
\* succeeded, and the Dues record shows 12.34.
C26_Witness ==
    /\ IntentCall(api)
    /\ api.req.amount = <<1234, 0>>
    /\ last.event.type = "payment_intent.succeeded"
    /\ api.body.paymentIntentId = Some(last.event.object)
    /\ dues[<<api.req.organizationId, api.req.memberId>>].amount = Some(<<12, 34>>)

\* C27: after a verified intent-succeeded or intent-failed event for an intent
\* has been processed, the local PaymentIntent record that mirrors the intent
\* no longer shows its issuance-time status but one that reflects the reported
\* outcome.
C27_RecordReflectsOutcome ==
    (/\ last.verified
     /\ last.status = 200
     /\ ~last.caught
     /\ last.event.type \in IssuedTypes) =>
        \A i \in 1..Len(piRecords) :
           piRecords[i].doc.paymentIntentId = last.event.object =>
              piRecords[i].doc.status # "requires_payment_method"

\* The event handled is an intent-succeeded event about an issued intent whose
\* metadata paymentType is t.
SucceededOfType(t) ==
    /\ Handled
    /\ last'.event.type = "payment_intent.succeeded"
    /\ \E i \in 1..Len(intents) :
          /\ intents[i].id = last'.event.object
          /\ intents[i].metadata.paymentType = Some(t)

\* C28: a member's Dues record is set to Paid only by an intent-succeeded event
\* whose metadata paymentType is 'dues': a succeeded intent created by
\* expenses/submit (paymentType 'expense') or tagged 'donation' never changes
\* the member's Dues status or amount.
C28_PaidOnlyByDuesIntents ==
    [][/\ \A k \in MemberKeys :
             (dues'[k] # dues[k] /\ dues'[k].status = Some("Paid")) =>
                SucceededOfType("dues")
       /\ (SucceededOfType("expense") \/ SucceededOfType("donation")) =>
             \A k \in MemberKeys :
                /\ dues'[k].status = dues[k].status
                /\ dues'[k].amount = dues[k].amount]_vars

\* C29: in every reachable state the fields of a Dues record are consistent
\* with its status: a record with status Paid carries no failureReason and no
\* refundDate or refundId left over from an earlier Failed or Refunded event,
\* and a record with status Failed carries no paidDate or stripeChargeId left
\* over from an earlier Paid event.
C29_FieldsMatchStatus ==
    \A k \in MemberKeys :
       /\ dues[k].status = Some("Paid") =>
             /\ dues[k].failureReason = None
             /\ dues[k].refundDate = None
             /\ dues[k].refundId = None
       /\ dues[k].status = Some("Failed") =>
             /\ dues[k].paidDate = None
             /\ dues[k].stripeChargeId = None

\* C30: whenever a Dues record has status Refunded, its paymentIntentId and
\* stripeChargeId identify the payment intent and charge that were refunded,
\* also when the member has had more than one payment intent.  Stated for the
\* record a refund event has just been written to, when that record names an
\* intent at all.
C30_RefundedIdentifiesCharge ==
    (/\ last.verified
     /\ last.event.type = "charge.refunded"
     /\ "dues" \in last.writes
     /\ ~last.caught) =>
        LET k == <<LastMeta.organizationId[1], LastMeta.memberId[1]>>
        IN  (dues[k].status = Some("Refunded") /\ dues[k].paymentIntentId # None) =>
               /\ dues[k].stripeChargeId = Some(last.event.object)
               /\ dues[k].paymentIntentId = Some(ChargeIntent(last.event.object))

-----------------------------------------------------------------------------
\* The expense a submission stored and its reimbursement.

\* The call answered before this step was an expenses/submit that stored an
\* Expense record, and this step serves a process-reimbursement for the same
\* member with the expenseId that submission answered, and answers 200.
ReimbursesSubmitted ==
    /\ Served
    /\ SubmitCall(api)
    /\ api.status = 200
    /\ \E j \in 1..Len(api.store) : api.store[j] = "expenses.add"
    /\ ReimbursementCall(api')
    /\ api'.status = 200
    /\ api'.req.expenseId = api.body.expenseId
    /\ api'.req.organizationId = api.req.organizationId
    /\ api'.req.memberId = api.req.memberId

\* C31: the expenseId returned by expenses/submit identifies the Expense record
\* that the same call stored: calling process-reimbursement with that expenseId
\* moves that stored record from Pending to Reimbursed and creates no
\* additional Expense record.
C31_ReturnedIdNamesStoredRecord ==
    [][ReimbursesSubmitted =>
          /\ Len(expenses') = Len(expenses)
          /\ expenses[Len(expenses)].doc.status = Some("Pending")
          /\ expenses'[Len(expenses)].doc.status = Some("Reimbursed")]_vars

\* The Expense record of id under the member of req is already Reimbursed.
AlreadyReimbursed(req) ==
    \E i \in 1..Len(expenses) :
       /\ expenses[i].key = <<req.organizationId, req.memberId>>
       /\ Some(expenses[i].id) = req.expenseId
       /\ Reimbursed(expenses[i])

\* The call answered before was a process-reimbursement for the same expense
\* that made its transfer and was answered 500 because the write failed.
RetryAfterTransfer(req) ==
    /\ WriteFailedAfterTransfer(api)
    /\ api.status = 500
    /\ api.req.expenseId # None
    /\ api.req.expenseId = req.expenseId
    /\ api.req.organizationId = req.organizationId
    /\ api.req.memberId = req.memberId

\* C32: across any sequence of process-reimbursement requests, including
\* repeats for an expense that is already Reimbursed and retries after a 500
\* answer, at most one provider transfer is created per expenseId.
C32_OneTransferPerExpense ==
    [][(/\ Served
        /\ ReimbursementCall(api')
        /\ AlreadyReimbursed(api'.req) \/ RetryAfterTransfer(api'.req)) =>
           transfers' = transfers]_vars

\* C33: a process-reimbursement request without an expenseId is rejected with
\* 400 before any provider call, so no transfer is ever created for a request
\* that cannot be tied to an Expense record.  Stated for a configured server
\* whose provider and Record Store answer every call.
C33_NoExpenseIdRejected ==
    [][(/\ Served
        /\ ReimbursementCall(api')
        /\ api'.req.expenseId = None
        /\ api'.failAt = "none"
        /\ db
        /\ stripeKey) =>
           /\ api'.status = 400
           /\ api'.provider = <<>>
           /\ transfers' = transfers]_vars

-----------------------------------------------------------------------------
\* The front end: src/frontend-integration.js, class ExchequerFrontendIntegration.

\* The server's variables, which the page's own steps leave alone.
server ==
    <<db, dues, donations, clock, delivered, last, stripeKey, customers, intents,
      transfers, piRecords, expenses, served, api, flight>>

\* lines 175-184 with 13-21: initialize(publishableKey); loads says whether
\* Stripe(publishableKey) returns or throws
initialize(pg, loads) ==
    IF loads
    THEN [pg EXCEPT !.stripe = TRUE, !.isInitialized = TRUE, !.outcome = "initialized"]
    ELSE [pg EXCEPT !.outcome = "threw"]

\* lines 253-276: one more #payment-modal element, whose confirm button calls
\* confirmPayment(window.currentClientSecret) when pressed
showPaymentModal(pg) == [pg EXCEPT !.modals = @ + 1]

\* lines 278-283: the first #payment-modal element is removed
hidePaymentModal(pg) == [pg EXCEPT !.modals = IF @ > 0 THEN @ - 1 ELSE 0]

\* lines 187-213 with 24-49 and 52-79: payDues once the payment system is
\* initialized.  r is the server's answer to createPaymentIntent; mounts says
\* whether paymentElement.mount('#payment-element') finds its container.
payDues(pg, r, mounts) ==
    IF r.status # 200
    THEN [pg EXCEPT !.outcome = "error"]
    ELSE
    LET form == [pg EXCEPT !.elements = r.body.clientSecret]
    IN  IF ~mounts
        THEN [form EXCEPT !.outcome = "error"]
        ELSE [showPaymentModal(form) EXCEPT
                 !.currentPaymentIntentId = r.body.paymentIntentId,
                 !.returned = Some([clientSecret |-> r.body.clientSecret,
                                    paymentIntentId |-> r.body.paymentIntentId]),
                 !.outcome = "returned"]

\* lines 216-231 with 82-101: confirmPayment(clientSecret); paid says whether
\* stripe.confirmPayment reports no error
confirmPayment(pg, clientSecret, paid) ==
    LET called == [pg EXCEPT !.confirm = Some([clientSecret |-> clientSecret])]
    IN  IF paid
        THEN [hidePaymentModal(called) EXCEPT !.outcome = "paid"]
        ELSE [called EXCEPT !.outcome = "declined"]

Initialize(loads) ==
    /\ page' = initialize(page, loads)
    /\ UNCHANGED server

\* The page calls payDues(amount, memberId, organizationId, description); req is
\* the body createPaymentIntent posts for these arguments.
CallPayDues(req, failAt, mounts) ==
    IF ~page.isInitialized
    THEN /\ page' = [page EXCEPT !.outcome = "threw"]
         /\ UNCHANGED server
    ELSE LET r == createPaymentIntent(req, failAt, clock)
         IN  /\ Respond("create-payment-intent", req, failAt, r)
             /\ page' = payDues(page, r, mounts)

\* lines 273-275: the confirm button of a modal is pressed
ConfirmClick(paid) ==
    /\ page.modals > 0
    /\ page' = confirmPayment(page, page.currentClientSecret, paid)
    /\ UNCHANGED server

\* line 272: the close button of a modal is pressed
CloseClick ==
    /\ page.modals > 0
    /\ page' = [hidePaymentModal(page) EXCEPT !.outcome = "closed"]
    /\ UNCHANGED server

NextFrontend ==
    \/ \E loads \in BOOLEAN : Initialize(loads)
    \/ \E req \in FrontendRequests, failAt \in {"none", "paymentIntents.create"},
          mounts \in BOOLEAN :
          CallPayDues(req, failAt, mounts)
    \/ \E paid \in BOOLEAN : ConfirmClick(paid)
    \/ CloseClick

SpecFrontend == InitIssuance /\ [][NextFrontend]_vars

\* This step is a press of a modal's confirm button.
ConfirmPressed == page' # page /\ page'.outcome \in {"paid", "declined"}

\* C34: in the front end, after payDues has returned {clientSecret,
\* paymentIntentId} and shown the payment modal, pressing the modal's confirm
\* button calls confirmPayment with the clientSecret of the intent that this
\* payDues call created.
C34_ConfirmUsesIssuedSecret ==
    [][(ConfirmPressed /\ page.returned # None) =>
          /\ page'.confirm # None
          /\ page'.confirm[1].clientSecret = page.returned[1].clientSecret
          /\ \E i \in 1..Len(intents) :
                Some(intents[i].client_secret) = page'.confirm[1].clientSecret]_vars


====
